---- MODULE Spec2Model ----
(***************************************************************************)
(* Credential life-cycle of school_checkin: the Redis-backed TokenInfo     *)
(* (src/lib/token-info.ts), the WeChat QR login helpers fetchUUID,         *)
(* pollWxCode and fetchTokenByWxCode (wechat-utils, carried in             *)
(* src/lib/email-utils.ts from line 298 on), the HTTP wrapper request()    *)
(* and the login loop TokenInfo.get_ensureLoggedIn; then the check-in      *)
(* client (src/lib/checkin-utils.ts), the notifier (src/lib/email-utils.ts *)
(* up to line 297), and the scheduler with its daily job                   *)
(* (src/unnamed/part_001).                                                 *)
(*                                                                         *)
(* Text (JSON documents, tokens, scan codes, response bodies) is a         *)
(* sequence of one-character strings, so that JSON.stringify, JSON.parse   *)
(* and the regular expressions are real conversions.  JavaScript values    *)
(* are tagged records:                                                     *)
(*   [t |-> "null"], [t |-> "undefined"], [t |-> "number", n |-> Int],     *)
(*   [t |-> "string", s |-> text], [t |-> "object", m |-> members]         *)
(* with members a sequence of [k |-> text, v |-> value].                   *)
(*                                                                         *)
(* An operator named X_on, X_with, ... is the rest of X after the value it *)
(* takes as a parameter has been computed.                                 *)
(***************************************************************************)
EXTENDS Bags, FiniteSets, Integers, Sequences, TLC

VARIABLES
  now,      \* Date.now(), in milliseconds
  client,   \* clientPromise of getClient(): "null", "connected" or "rejected"
  store,    \* the Redis entry under key 'token_info'
  ti,       \* the TokenInfo object the caller holds
  call,     \* the TokenInfo call in progress (isValid / fromRedis / save)
  poll,     \* the pollWxCode activation
  flow,     \* the get_ensureLoggedIn activation
  checkin,  \* the getCheckInInfo / submitCheckIn call in progress
  sched,    \* the scheduler: checkinJob and the cron jobs it created
  job,      \* the performDailyCheckin activation
  mail,     \* the notifier: EMAIL_ENABLED and the operation in progress
  savers,   \* the save() calls of concurrent logins
  web       \* the web server: login sessions, their timers, the events pushed

vars == <<now, client, store, ti, call, poll, flow, checkin, sched, job, mail, savers, web>>

-----------------------------------------------------------------------------
(* JavaScript values *)

Null == [t |-> "null"]

Undefined == [t |-> "undefined"]

Num(n) == [t |-> "number", n |-> n]

Str(s) == [t |-> "string", s |-> s]

Obj(m) == [t |-> "object", m |-> m]

\* ToBoolean: what `!x` and `if (x)` test
Truthy(v) ==
  CASE v.t = "null" -> FALSE
    [] v.t = "undefined" -> FALSE
    [] v.t = "number" -> v.n # 0
    [] v.t = "string" -> Len(v.s) > 0
    [] OTHER -> TRUE

Digit == <<"0", "1", "2", "3", "4", "5", "6", "7", "8", "9">>

IsDigit(c) == \E i \in 1..10 : Digit[i] = c

DigitVal(c) == (CHOOSE i \in 1..10 : Digit[i] = c) - 1

RECURSIVE Digits(_)
\* the decimal digits of a natural number
Digits(n) == IF n < 10 THEN <<Digit[n + 1]>>
             ELSE Digits(n \div 10) \o <<Digit[(n % 10) + 1]>>

RECURSIVE DigitsVal(_, _)
\* the number a digit sequence denotes (parseInt(s, 10) on /\d+/)
DigitsVal(s, acc) == IF s = <<>> THEN acc
                     ELSE DigitsVal(Tail(s), 10 * acc + DigitVal(Head(s)))

RECURSIVE Lookup(_, _, _)
\* the value of the last member named key, undefined when there is none
Lookup(m, key, i) == IF i = 0 THEN Undefined
                     ELSE IF m[i].k = key THEN m[i].v
                     ELSE Lookup(m, key, i - 1)

\* property access v.key on a value that is not null or undefined
GetProp(v, key) == IF v.t = "object" THEN Lookup(v.m, key, Len(v.m)) ELSE Undefined

\* v?.key
OptProp(v, key) == IF v.t \in {"null", "undefined"} THEN Undefined ELSE GetProp(v, key)

-----------------------------------------------------------------------------
(* JSON.stringify and JSON.parse on the fragment: null, integers, strings   *)
(* with the escapes \" and \\, objects; no white space                      *)

RECURSIVE Escape(_)
Escape(s) == IF s = <<>> THEN <<>>
             ELSE IF Head(s) \in {"\"", "\\"} THEN <<"\\", Head(s)>> \o Escape(Tail(s))
             ELSE <<Head(s)>> \o Escape(Tail(s))

Quote(s) == <<"\"">> \o Escape(s) \o <<"\"">>

RECURSIVE JSONstringify(_)
RECURSIVE StringifyMembers(_, _)
\* members whose value is undefined are left out
StringifyMembers(m, first) ==
  IF m = <<>> THEN <<>>
  ELSE IF Head(m).v.t = "undefined" THEN StringifyMembers(Tail(m), first)
  ELSE (IF first THEN <<>> ELSE <<",">>)
       \o Quote(Head(m).k) \o <<":">> \o JSONstringify(Head(m).v)
       \o StringifyMembers(Tail(m), FALSE)

JSONstringify(v) ==
  CASE v.t = "number" -> IF v.n < 0 THEN <<"-">> \o Digits(-v.n) ELSE Digits(v.n)
    [] v.t = "string" -> Quote(v.s)
    [] v.t = "object" -> <<"{">> \o StringifyMembers(v.m, TRUE) \o <<"}">>
    [] OTHER -> <<"n", "u", "l", "l">>

\* a parse result: the value and the position after it, or a SyntaxError
Fail == [ok |-> FALSE, v |-> Undefined, i |-> 0]

Got(v, i) == [ok |-> TRUE, v |-> v, i |-> i]

At(s, i) == IF i <= Len(s) THEN s[i] ELSE "EOF"

RECURSIVE ScanString(_, _, _)
\* after the opening quote: the characters up to the closing quote
ScanString(s, i, acc) ==
  IF i > Len(s) THEN Fail
  ELSE IF s[i] = "\"" THEN Got(Str(acc), i + 1)
  ELSE IF s[i] = "\\"
       THEN IF At(s, i + 1) \in {"\"", "\\"}
            THEN ScanString(s, i + 2, Append(acc, s[i + 1]))
            ELSE Fail
  ELSE ScanString(s, i + 1, Append(acc, s[i]))

RECURSIVE ScanDigits(_, _)
\* the position after the run of digits starting at i
ScanDigits(s, i) == IF IsDigit(At(s, i)) THEN ScanDigits(s, i + 1) ELSE i

\* the digits run from b to e - 1; a leading zero stands alone
ParseNumber_on(s, neg, b, e) ==
  IF e = b \/ (At(s, b) = "0" /\ e > b + 1) THEN Fail
  ELSE IF neg THEN Got(Num(-DigitsVal(SubSeq(s, b, e - 1), 0)), e)
  ELSE Got(Num(DigitsVal(SubSeq(s, b, e - 1), 0)), e)

ParseNumber(s, i) ==
  IF At(s, i) = "-" THEN ParseNumber_on(s, TRUE, i + 1, ScanDigits(s, i + 1))
  ELSE ParseNumber_on(s, FALSE, i, ScanDigits(s, i))

RECURSIVE ParseValue(_, _)
RECURSIVE ParseMembers(_, _, _)
RECURSIVE ParseMembers_key(_, _, _)
RECURSIVE ParseMembers_value(_, _, _, _)
\* after "key":value comes "," or "}"
ParseMembers_value(s, k, x, acc) ==
  IF ~x.ok THEN Fail
  ELSE IF At(s, x.i) = "," THEN ParseMembers(s, x.i + 1, Append(acc, [k |-> k.v.s, v |-> x.v]))
  ELSE IF At(s, x.i) = "}" THEN Got(Obj(Append(acc, [k |-> k.v.s, v |-> x.v])), x.i + 1)
  ELSE Fail

\* after "key" comes ":" and the value
ParseMembers_key(s, k, acc) ==
  IF ~k.ok \/ At(s, k.i) # ":" THEN Fail
  ELSE ParseMembers_value(s, k, ParseValue(s, k.i + 1), acc)

\* after "{" or ",": a member
ParseMembers(s, i, acc) ==
  IF At(s, i) # "\"" THEN Fail
  ELSE ParseMembers_key(s, ScanString(s, i + 1, <<>>), acc)

ParseValue(s, i) ==
  IF At(s, i) = "{" THEN IF At(s, i + 1) = "}" THEN Got(Obj(<<>>), i + 2)
                         ELSE ParseMembers(s, i + 1, <<>>)
  ELSE IF At(s, i) = "\"" THEN ScanString(s, i + 1, <<>>)
  ELSE IF At(s, i) = "-" \/ IsDigit(At(s, i)) THEN ParseNumber(s, i)
  ELSE IF <<At(s, i), At(s, i + 1), At(s, i + 2), At(s, i + 3)>> = <<"n", "u", "l", "l">>
       THEN Got(Null, i + 4)
  ELSE Fail

\* the whole text must be one value
JSONparse_on(s, r) == IF r.ok /\ r.i = Len(s) + 1 THEN r ELSE Fail

\* JSON.parse(text): ok = FALSE stands for the SyntaxError it throws
JSONparse(s) == JSONparse_on(s, ParseValue(s, 1))

-----------------------------------------------------------------------------
(* Time and the Redis entry *)

\* DEFAULT_TTL, in seconds: the time to live save() gives the entry
DEFAULT_TTL == 3600

\* the clock steps the model takes: one millisecond, or a whole time to live
MaxTicks == 1

TtlMs == DEFAULT_TTL * 1000

TickSteps == {1, TtlMs}

\* no entry under the key
NoEntry == [present |-> FALSE, json |-> <<>>, expAt |-> 0, by |-> "none",
            src |-> [token |-> Null, expire |-> Null]]

\* the entry is there and its time to live, if it has one, is not over
Live(e, clock) == e.present /\ (e.expAt = 0 \/ clock < e.expAt)

\* the entry as a reader finds it
Visible(e, clock) == IF Live(e, clock) THEN e ELSE NoEntry

\* client.get(key): the string stored, or null
RedisGet(e, clock) == IF Live(e, clock) THEN Str(e.json) ELSE Null

\* client.set as mutated: Redis acknowledges the SET and keeps nothing
RedisSet_lost(json, ttl, clock, who, t) == NoEntry

\* client.set(key, json, {EX: ttl}); by and src remember which save() wrote it
RedisSet(json, ttl, clock, who, t) ==
  [present |-> TRUE, json |-> json, expAt |-> clock + ttl * 1000, by |-> who, src |-> t]

-----------------------------------------------------------------------------
(* TokenInfo *)

TOKEN == <<"t", "o", "k", "e", "n">>

EXPIRE == <<"e", "x", "p", "i", "r", "e">>

\* constructor(token = null, expire = null): undefined takes the default
NewTokenInfo(t, e) == [token |-> IF t.t = "undefined" THEN Null ELSE t,
                       expire |-> IF e.t = "undefined" THEN Null ELSE e]

EmptyTokenInfo == NewTokenInfo(Undefined, Undefined)

\* does `x ? new Date(x).toISOString() : null` throw a RangeError: it does for a
\* truthy x that is no date (the numbers of this model are all in Date's range,
\* its strings are no dates)
IsoThrows(x) == Truthy(x) /\ x.t # "number"

\* `clock < x` in JavaScript, clock a number
JsLess(clock, x) ==
  CASE x.t = "number" -> clock < x.n
    [] x.t = "string" -> /\ x.s # <<>>
                         /\ \A i \in 1..Len(x.s) : IsDigit(x.s[i])
                         /\ clock < DigitsVal(x.s, 0)
    [] OTHER -> FALSE

\* isValid() as mutated: an expiry equal to the clock still counts
isValid_inclusive(t, clock) ==
  IF ~Truthy(t.token) \/ ~Truthy(t.expire) THEN [threw |-> FALSE, ret |-> FALSE]
  ELSE IF IsoThrows(t.expire) THEN [threw |-> TRUE, ret |-> FALSE]
  ELSE [threw |-> FALSE, ret |-> JsLess(clock - 1, t.expire)]

\* isValid(): [threw, ret]
isValid(t, clock) ==
  IF ~Truthy(t.token) \/ ~Truthy(t.expire) THEN [threw |-> FALSE, ret |-> FALSE]
  ELSE IF IsoThrows(t.expire) THEN [threw |-> TRUE, ret |-> FALSE]
  ELSE [threw |-> FALSE, ret |-> JsLess(clock, t.expire)]

\* fromRedis(), the log line after `new TokenInfo(parsed.token, parsed.expire)`:
\* toISOString() or isValid() may throw, and the outer catch wraps that
FromRedisRead_loaded(t, clock) ==
  IF IsoThrows(t.expire) \/ isValid(t, clock).threw
  THEN [k |-> "throw", t |-> EmptyTokenInfo]
  ELSE [k |-> "return", t |-> t]

\* fromRedis() after JSON.parse(json): a SyntaxError leads to client.del(key),
\* `parsed.token` on null is a TypeError
FromRedisRead_parsed(p, clock) ==
  IF ~p.ok THEN [k |-> "del", t |-> EmptyTokenInfo]
  ELSE IF p.v.t = "null" THEN [k |-> "throw", t |-> EmptyTokenInfo]
  ELSE FromRedisRead_loaded(NewTokenInfo(GetProp(p.v, TOKEN), GetProp(p.v, EXPIRE)), clock)

\* fromRedis(), as mutated: what the try block throws after the read is
\* swallowed and the empty credential returned
FromRedisRead_swallowed(json, clock) ==
  IF ~Truthy(json) THEN [k |-> "return", t |-> EmptyTokenInfo]
  ELSE IF FromRedisRead_parsed(JSONparse(json.s), clock).k = "throw"
  THEN [k |-> "return", t |-> EmptyTokenInfo]
  ELSE FromRedisRead_parsed(JSONparse(json.s), clock)

\* fromRedis() after `await client.get(key)` answered json:
\*   "return" the TokenInfo, go on to "del" the entry, or "throw" RedisError
FromRedisRead(json, clock) ==
  IF ~Truthy(json) THEN [k |-> "return", t |-> EmptyTokenInfo]
  ELSE FromRedisRead_parsed(JSONparse(json.s), clock)

\* the document save() writes, as mutated: the expiry is left out
SaveJson_noExpire(t) == JSONstringify(Obj(<<[k |-> TOKEN, v |-> t.token]>>))

\* the document save() writes
SaveJson(t) ==
  JSONstringify(Obj(<<[k |-> TOKEN, v |-> t.token], [k |-> EXPIRE, v |-> t.expire]>>))

\* save()'s check, as mutated: the expiry is not looked at
SaveRefuses_tokenOnly(t) == ~Truthy(t.token)

\* save()'s check before it writes
SaveRefuses(t) == ~Truthy(t.token) \/ ~Truthy(t.expire)

-----------------------------------------------------------------------------
(* The environment: the clock, Redis expiring the entry, other writers *)

\* largest expiry the inputs carry
MaxExpire == 2

Ticks(clock) == (clock \div TtlMs) + (clock % TtlMs)

Tick ==
  /\ \E d \in TickSteps : Ticks(now) < MaxTicks /\ now' = now + d
  /\ UNCHANGED <<client, store, ti, call, poll, flow, checkin, sched, job, mail, savers, web>>

\* Redis drops the entry when its time to live is over
RedisExpire ==
  /\ store.present /\ store.expAt > 0 /\ store.expAt <= now
  /\ store' = NoEntry
  /\ UNCHANGED <<now, client, ti, call, poll, flow, checkin, sched, job, mail, savers, web>>

\* values found under the key that no save() wrote: "", {x, null, 7, {},
\* {"token":"t","expire":"x"}
RawValues ==
  { <<>>,
    <<"{", "x">>,
    <<"n", "u", "l", "l">>,
    <<"7">>,
    <<"{", "}">>,
    <<"{">> \o Quote(TOKEN) \o <<":">> \o Quote(<<"t">>) \o <<",">>
            \o Quote(EXPIRE) \o <<":">> \o Quote(<<"x">>) \o <<"}">> }

\* the key is overwritten from outside the process, with no time to live
ExternalWrite ==
  /\ \E v \in RawValues :
       store' = [present |-> TRUE, json |-> v, expAt |-> 0, by |-> "other",
                 src |-> EmptyTokenInfo]
  /\ UNCHANGED <<now, client, ti, call, poll, flow, checkin, sched, job, mail, savers, web>>

\* await getClient(): the promise is created once and then shared
GetClientOutcomes == IF client = "null" THEN {"connected", "rejected"} ELSE {client}

-----------------------------------------------------------------------------
(* A caller of TokenInfo: new TokenInfo(t, e), isValid(), fromRedis(), save() *)

TokenInputs == {Null, Str(<<>>), Str(<<"t">>), Str(<<"a", "\"", "\\">>)}

ExpireInputs == {Null} \cup {Num(n) : n \in -1..MaxExpire}

NoCall == [op |-> "none", pc |-> "idle", ret |-> FALSE, err |-> "", at |-> 0,
           seen |-> NoEntry, arg |-> EmptyTokenInfo, out |-> EmptyTokenInfo,
           sets |-> 0, dels |-> 0]

Resting == call.pc \in {"idle", "done", "threw"}

NoPoll == [pc |-> "idle", track |-> FALSE, polls |-> 0, requests |-> 0, consumed |-> 0, delay |-> 0,
           result |-> Null, err |-> "", fails |-> FALSE, prior |-> "none",
           last |-> [kind |-> "none", n |-> -1, c |-> <<>>]]

NoExchange == [n |-> 0, answered |-> FALSE, token |-> FALSE, expire |-> FALSE, threw |-> FALSE, err |-> ""]

NoFlow == [pc |-> "idle", path |-> "", attempts |-> 0, wxCode |-> Null,
           fresh |-> EmptyTokenInfo, ret |-> EmptyTokenInfo, retAt |-> 0, err |-> "",
           seen |-> NoEntry, sawValid |-> FALSE, failed |-> "",
           sessions |-> 0, exchanges |-> 0, writes |-> 0, ex |-> NoExchange,
           qrBuffer |-> Undefined, printed |-> FALSE]

NoRequest == [api |-> "none", method |-> "", token |-> Undefined, body |-> Undefined]

NoCheckin == [op |-> "none", pc |-> "idle", token |-> Undefined, signature |-> Undefined,
              location |-> Undefined, requests |-> 0, req |-> NoRequest,
              ret |-> Undefined, err |-> "", field |-> ""]

NoStatus == [isRunning |-> FALSE, checkinJobStatus |-> FALSE, nextCheckinDate |-> FALSE]

\* checkinJob is 0 for null, else the CronJob it refers to; timers are the
\* CronJobs that are started; before, created, threw and status describe the
\* last operation op
NoSched == [checkinJob |-> 0, timers |-> {}, made |-> 0, op |-> "none", before |-> 0,
            created |-> FALSE, threw |-> FALSE, status |-> NoStatus]

\* a performDailyCheckin activation: seen is the entry fromRedis() read (read
\* says that Redis answered), caught the error its catch block logged; res is
\* what a run of a server path answered
NoJob == [pc |-> "idle", by |-> "none", userName |-> Undefined, tokenInfo |-> EmptyTokenInfo,
          read |-> FALSE, seen |-> NoEntry, at |-> 0, requests |-> 0, alerts |-> 0,
          dels |-> 0, caught |-> "", res |-> ""]

\* the notifier: the operation in progress with its arguments, the subject of
\* the message, the error raised to the caller (err) or logged by the
\* operation itself (caught), whether the transport took the message
NoMail == [EMAIL_ENABLED |-> FALSE, op |-> "none", pc |-> "idle", uuid |-> Undefined,
           qrBuffer |-> Undefined, result |-> Undefined, reauthUrl |-> Undefined,
           isExpiringSoon |-> FALSE, subject |-> <<>>, err |-> "", caught |-> "",
           delivered |-> FALSE]

\* the logins that may save at the same time
MaxSavers == 2

\* the save() calls in progress, one per concurrent login: t is the TokenInfo
\* being saved; last is the TokenInfo of the latest SET Redis applied, sets
\* counts them.  promise is the module variable clientPromise (0 for null,
\* else k for the promise of the k-th client created), made counts the
\* createClient() calls, waits[i] is the operation of caller i and the promise
\* getClient() returned to it
NoSavers == [run |-> [i \in 1..MaxSavers |-> [pc |-> "idle", t |-> EmptyTokenInfo]],
             last |-> EmptyTokenInfo, sets |-> 0,
             promise |-> 0, made |-> 0,
             waits |-> [i \in 1..MaxSavers |-> [op |-> "none", p |-> 0]]]

\* the POST /api/qrcode requests served
MaxLogins == 2

\* the interval callbacks that await at a time
MaxCalls == 2

\* the HTTP requests for a check-in in progress at a time, per route
MaxRuns == 2

\* the id the requester sends as req.body.sessionId with every request
SessionIds == {"a"}

Routes == {"/api/trigger-checkin", "/api/checkin"}

\* no entry under the sessionId; the uuid, the timeout and the interval that
\* the k-th POST /api/qrcode creates are all called k
NoSession == [uuid |-> 0, timeout |-> 0, pollCount |-> 0]

\* the web server: made counts the sessions created and of[k] is the
\* sessionId of the k-th; aged holds the k whose TIMEOUT is over; timeouts and
\* intervals are the timers that are set; calls is the bag of the interval
\* callbacks that await (k: whose interval, pc: which await); events are the
\* types of message pushed so far per sessionId and last is the latest
\* message, n alternating with every message; runs are the check-in requests
\* being handled per route, each at one of its awaits; run is one run of a
\* server path that checks in, followed through its awaits; refused says that
\* a POST /api/qrcode was answered 500
NoWeb == [pollingSessions |-> [s \in SessionIds |-> NoSession],
          sessionStats |-> [totalSessions |-> 0, activeSessions |-> 0],
          made |-> 0, of |-> <<>>, aged |-> {}, timeouts |-> {}, intervals |-> {},
          calls |-> EmptyBag,
          events |-> [s \in SessionIds |-> {}],
          last |-> [sessionId |-> "", type |-> "", n |-> 0],
          runs |-> [r \in Routes |-> [i \in 1..MaxRuns |-> "none"]],
          run |-> NoJob, refused |-> FALSE]

Construct ==
  /\ Resting
  /\ \E t \in TokenInputs, e \in ExpireInputs : ti' = NewTokenInfo(t, e)
  /\ call' = NoCall
  /\ UNCHANGED <<now, client, store, poll, flow, checkin, sched, job, mail, savers, web>>

IsValidCall ==
  /\ Resting
  /\ LET r == isValid(ti, now)
     IN  call' = [NoCall EXCEPT !.op = "isValid", !.arg = ti, !.at = now, !.ret = r.ret,
                                !.pc = IF r.threw THEN "threw" ELSE "done",
                                !.err = IF r.threw THEN "RangeError" ELSE ""]
  /\ UNCHANGED <<now, client, store, ti, poll, flow, checkin, sched, job, mail, savers, web>>

\* fromRedis(): `await getClient()`
FromRedisCall ==
  /\ Resting
  /\ \E c \in GetClientOutcomes :
       /\ client' = c
       /\ call' = [NoCall EXCEPT !.op = "fromRedis",
                                 !.pc = IF c = "connected" THEN "get" ELSE "threw",
                                 !.err = IF c = "connected" THEN "" ELSE "redis"]
  /\ UNCHANGED <<now, store, ti, poll, flow, checkin, sched, job, mail, savers, web>>

\* fromRedis() goes on from what FromRedisRead decided
FromRedisGet_on(c, r, e, clock) ==
  [c EXCEPT !.seen = e, !.at = clock,
            !.pc = CASE r.k = "return" -> "done"
                     [] r.k = "del" -> "del"
                     [] OTHER -> "threw",
            !.err = IF r.k = "throw" THEN "Error" ELSE "",
            !.out = IF r.k = "return" THEN r.t ELSE c.out]

\* fromRedis(): `await client.get(key)` and what follows up to the next await
FromRedisGet ==
  /\ call.op = "fromRedis" /\ call.pc = "get"
  /\ \E ok \in BOOLEAN :
       call' = IF ~ok THEN [call EXCEPT !.pc = "threw", !.err = "redis"]
               ELSE FromRedisGet_on(call, FromRedisRead(RedisGet(store, now), now), Visible(store, now), now)
  /\ ti' = IF call'.pc = "done" THEN call'.out ELSE ti
  /\ UNCHANGED <<now, client, store, poll, flow, checkin, sched, job, mail, savers, web>>

\* fromRedis(): `await client.del(key)` of the entry that did not parse
FromRedisDel ==
  /\ call.op = "fromRedis" /\ call.pc = "del"
  /\ \E ok \in BOOLEAN :
       IF ~ok THEN /\ call' = [call EXCEPT !.pc = "threw", !.err = "redis"]
                   /\ UNCHANGED <<store, ti, checkin, sched, job, mail, savers, web>>
       ELSE /\ store' = NoEntry
            /\ ti' = EmptyTokenInfo
            /\ call' = [call EXCEPT !.pc = "done", !.dels = @ + 1]
  /\ UNCHANGED <<now, client, poll, flow, checkin, sched, job, mail, savers, web>>

\* save(): `await getClient()`, then the check of token and expire
SaveCall ==
  /\ Resting
  /\ \E c \in GetClientOutcomes :
       /\ client' = c
       /\ call' = [NoCall EXCEPT !.op = "save", !.arg = ti,
                     !.pc = IF c # "connected" \/ SaveRefuses(ti) THEN "threw" ELSE "set",
                     !.err = IF c # "connected" THEN "redis"
                             ELSE IF SaveRefuses(ti) THEN "INVALID_TOKEN_SAVE" ELSE ""]
  /\ UNCHANGED <<now, store, ti, poll, flow, checkin, sched, job, mail, savers, web>>

\* save(): `await client.set(key, json, {EX: ttl})`, then the log line
SaveSet ==
  /\ call.op = "save" /\ call.pc = "set"
  /\ \E ok \in BOOLEAN :
       IF ~ok THEN /\ call' = [call EXCEPT !.pc = "threw", !.err = "redis"]
                   /\ store' = store
       ELSE /\ store' = RedisSet(SaveJson(ti), DEFAULT_TTL, now, "save", ti)
            /\ call' = [call EXCEPT !.sets = @ + 1, !.at = now,
                          !.pc = IF IsoThrows(ti.expire) THEN "threw" ELSE "done",
                          !.err = IF IsoThrows(ti.expire) THEN "Error" ELSE ""]
  /\ UNCHANGED <<now, client, ti, poll, flow, checkin, sched, job, mail, savers, web>>

InitStore ==
  /\ now = 0
  /\ client = "null"
  /\ store = NoEntry
  /\ ti = EmptyTokenInfo
  /\ call = NoCall
  /\ poll = NoPoll
  /\ flow = NoFlow
  /\ checkin = NoCheckin
  /\ sched = NoSched
  /\ job = NoJob
  /\ mail = NoMail
  /\ savers = NoSavers
  /\ web = NoWeb

NextStore ==
  \/ Tick
  \/ RedisExpire
  \/ ExternalWrite
  \/ Construct
  \/ IsValidCall
  \/ FromRedisCall
  \/ FromRedisGet
  \/ FromRedisDel
  \/ SaveCall
  \/ SaveSet

SpecStore == InitStore /\ [][NextStore]_vars

-----------------------------------------------------------------------------
(* request(): the HTTP wrapper. A response is [ok, body]: ok = FALSE is a      *)
(* transport failure or a status outside 2xx                                  *)

\* `try { return JSON.parse(text) } catch { return text }`
request_on(text, p) == [threw |-> FALSE, v |-> IF p.ok THEN p.v ELSE Str(text)]

\* request<T>(url, options): throws NetworkError, or returns the body parsed as
\* JSON when it parses and as text when it does not
request(resp) ==
  IF ~resp.ok THEN [threw |-> TRUE, v |-> Undefined]
  ELSE request_on(resp.body, JSONparse(resp.body))

StartsWith(s, i, pat) ==
  /\ i + Len(pat) - 1 <= Len(s)
  /\ \A j \in 1..Len(pat) : s[i + j - 1] = pat[j]

NoMatch == [m |-> FALSE, g |-> <<>>]

\* the capture group from b to e - 1, when the pattern matched at i
Group(s, hit, b, e) == IF hit /\ e > b THEN [m |-> TRUE, g |-> SubSeq(s, b, e - 1)] ELSE NoMatch

-----------------------------------------------------------------------------
(* pollWxCode(uuid) *)

maxPolls == 300

WX_ERRCODE == <<"w", "x", "_", "e", "r", "r", "c", "o", "d", "e", "=">>

WX_CODE == <<"w", "x", "_", "c", "o", "d", "e", "=", "'">>

RECURSIVE MatchErrcode(_, _)
RECURSIVE MatchErrcode_at(_, _, _)
MatchErrcode_at(s, i, hit) == IF hit.m THEN hit ELSE MatchErrcode(s, i + 1)

\* text.match(/wx_errcode=(\d+)/), searched from position i on
MatchErrcode(s, i) ==
  IF i > Len(s) THEN NoMatch
  ELSE MatchErrcode_at(s, i, Group(s, StartsWith(s, i, WX_ERRCODE), i + Len(WX_ERRCODE),
                                   ScanDigits(s, i + Len(WX_ERRCODE))))

RECURSIVE ScanNotQuote(_, _)
ScanNotQuote(s, i) == IF i <= Len(s) /\ s[i] # "'" THEN ScanNotQuote(s, i + 1) ELSE i

\* the closing quote must follow the group
Closed(s, e, hit) == IF hit.m /\ At(s, e) = "'" THEN hit ELSE NoMatch

RECURSIVE MatchCode(_, _)
RECURSIVE MatchCode_at(_, _, _)
MatchCode_at(s, i, hit) == IF hit.m THEN hit ELSE MatchCode(s, i + 1)

\* text.match(/wx_code='([^']+)'/), searched from position i on
MatchCode(s, i) ==
  IF i > Len(s) THEN NoMatch
  ELSE MatchCode_at(s, i, Closed(s, ScanNotQuote(s, i + Len(WX_CODE)),
                                 Group(s, StartsWith(s, i, WX_CODE), i + Len(WX_CODE),
                                       ScanNotQuote(s, i + Len(WX_CODE)))))

\* the branches on errcode, as mutated: an expired answer (403) is taken for
\* one more "still waiting"
PollBody_status_ignoreExpired(errcode, codeMatch) ==
  IF errcode = 405 /\ codeMatch.m THEN [k |-> "return", code |-> Str(codeMatch.g)]
  ELSE [k |-> "sleep", code |-> Null]

\* the branches on errcode (-1 stands for null): `return code`, `return null`,
\* or fall through to the one second sleep
PollBody_status(errcode, codeMatch) ==
  IF errcode = 405 /\ codeMatch.m THEN [k |-> "return", code |-> Str(codeMatch.g)]
  ELSE IF errcode = 404 THEN [k |-> "sleep", code |-> Null]
  ELSE IF errcode = 403 THEN [k |-> "return", code |-> Null]
  ELSE [k |-> "sleep", code |-> Null]

\* `errcode = parseInt(errMatch[1], 10)` when the pattern matched
PollBody_matched(errMatch, codeMatch) ==
  PollBody_status(IF errMatch.m THEN DigitsVal(errMatch.g, 0) ELSE -1, codeMatch)

\* the loop body after the request, as mutated: a failed request is rethrown
PollBody_on_rethrow(r) ==
  IF r.threw THEN [k |-> "throw", code |-> Null]
  ELSE IF r.v.t # "string" THEN [k |-> "catch", code |-> Null]
  ELSE PollBody_matched(MatchErrcode(r.v.s, 1), MatchCode(r.v.s, 1))

\* the loop body after the request: a request that threw, or a `text` that
\* has no match(), lands in the inner catch
PollBody_on(r) ==
  IF r.threw \/ r.v.t # "string" THEN [k |-> "catch", code |-> Null]
  ELSE PollBody_matched(MatchErrcode(r.v.s, 1), MatchCode(r.v.s, 1))

\* one pass of the loop body on a status response: "return" a code or null,
\* "sleep" one second and go on, or "catch" an error and sleep two
PollBody(resp) == PollBody_on(request(resp))

\* the status endpoint's answers: window.wx_errcode=<n>;window.wx_code='<c>';
\* with n one of the statuses below or missing (-1), c a code or empty
Statuses == {-1, 0, 402, 403, 404, 405}

ScanCodes == {<<>>, <<"a", "b", "c">>}

StatusText(n, c) ==
  (IF n < 0 THEN <<>> ELSE <<"w", "i", "n", "d", "o", "w", ".">> \o WX_ERRCODE \o Digits(n) \o <<";">>)
  \o <<"w", "i", "n", "d", "o", "w", ".">> \o WX_CODE \o c \o <<"'", ";">>

\* what the status endpoint may do with one request: answer a status, answer a
\* JSON document instead of the script, or fail
PollAnswers ==
  [kind : {"status"}, n : Statuses, c : ScanCodes]
    \cup {[kind |-> "json", n |-> -1, c |-> <<>>], [kind |-> "fail", n |-> -1, c |-> <<>>]}

ResponseOf(a) ==
  CASE a.kind = "status" -> [ok |-> TRUE, body |-> StatusText(a.n, a.c)]
    [] a.kind = "json" -> [ok |-> TRUE, body |-> <<"{", "}">>]
    [] OTHER -> [ok |-> FALSE, body |-> <<>>]

\* the loop body's outcome on each answer of the status endpoint
PollOutcomes == [a \in PollAnswers |-> PollBody(ResponseOf(a))]

\* the loop test, as mutated: off by one
PollMayRequest_offByOne(polls) == polls <= maxPolls

\* the loop test `polls < maxPolls`
PollMayRequest(polls) == polls < maxPolls

UuidInputs == {<<>>, <<"u", "1">>}

\* `while (polls < maxPolls) { polls++; ... request(pollUrl)`, which runs up to
\* the await of the request, or the timeout after the loop
PollLoop(p) ==
  IF PollMayRequest(p.polls)
  THEN [p EXCEPT !.pc = "await", !.polls = @ + 1, !.requests = @ + 1]
  ELSE [p EXCEPT !.pc = "done", !.result = Null]

\* pollWxCode(uuid) is called: an empty uuid is refused, otherwise the call
\* runs up to its first await
PollCall ==
  /\ poll.pc \in {"idle", "done", "threw"}
  /\ \E uuid \in UuidInputs :
       poll' = IF uuid = <<>> THEN [NoPoll EXCEPT !.pc = "threw", !.err = "MISSING_UUID"]
               ELSE PollLoop([NoPoll EXCEPT !.track = TRUE])
  /\ UNCHANGED <<now, client, store, ti, call, flow, checkin, sched, job, mail, savers, web>>

\* the history of the answers, kept for a call made on its own: the last
\* answer, whether a request failed, and whether all answers before the last
\* were plain "still waiting" (404, no code)
Heard(p, a) ==
  IF ~p.track THEN [p EXCEPT !.consumed = @ + 1]
  ELSE [p EXCEPT !.consumed = @ + 1,
                 !.last = a,
                 !.fails = @ \/ a.kind = "fail",
                 !.prior = IF p.consumed = 0 THEN "none"
                           ELSE IF /\ p.prior \in {"none", "waits"}
                                   /\ p.last.kind = "status"
                                   /\ p.last.n = 404
                                   /\ p.last.c = <<>>
                                THEN "waits"
                           ELSE "mixed"]

\* the length of the sleep, kept like the history for a call made on its own
Slept(p, ms) == IF p.track THEN ms ELSE 0

\* where the loop body's outcome leaves the call; an error that gets past the
\* inner catch is wrapped by the outer one
PollSettle(p, r) ==
  CASE r.k = "return" -> [p EXCEPT !.pc = "done", !.result = r.code]
    [] r.k = "sleep" -> [p EXCEPT !.pc = "sleep", !.delay = Slept(p, 1000)]
    [] r.k = "catch" -> [p EXCEPT !.pc = "sleep", !.delay = Slept(p, 2000)]
    [] OTHER -> [p EXCEPT !.pc = "threw", !.err = "NETWORK_ERROR"]

\* the status request settles and the loop body runs up to its sleep
PollResponse ==
  /\ poll.pc = "await"
  /\ \E a \in PollAnswers : poll' = PollSettle(Heard(poll, a), PollOutcomes[a])
  /\ UNCHANGED <<now, client, store, ti, call, flow, checkin, sched, job, mail, savers, web>>

\* the setTimeout of the sleep fires and the loop goes round
PollTimer ==
  /\ poll.pc = "sleep"
  /\ poll' = PollLoop([poll EXCEPT !.delay = 0])
  /\ UNCHANGED <<now, client, store, ti, call, flow, checkin, sched, job, mail, savers, web>>

NextPoll ==
  \/ PollCall
  \/ PollResponse
  \/ PollTimer

SpecPoll == InitStore /\ [][NextPoll]_vars

-----------------------------------------------------------------------------
(* fetchUUID() and fetchTokenByWxCode(wxCode) *)

UUID_EQ == <<"u", "u", "i", "d", "=">>

\* the character class [a-zA-Z0-9_-]
UuidChars ==
    {"a", "b", "c", "d", "e", "f", "g", "h", "i", "j", "k", "l", "m", "n", "o",
    "p", "q", "r", "s", "t", "u", "v", "w", "x", "y", "z", "A", "B", "C", "D",
    "E", "F", "G", "H", "I", "J", "K", "L", "M", "N", "O", "P", "Q", "R", "S",
    "T", "U", "V", "W", "X", "Y", "Z", "0", "1", "2", "3", "4", "5", "6", "7",
    "8", "9", "_", "-"}

RECURSIVE ScanUuid(_, _)
ScanUuid(s, i) == IF i <= Len(s) /\ s[i] \in UuidChars THEN ScanUuid(s, i + 1) ELSE i

RECURSIVE MatchUuid(_, _)
RECURSIVE MatchUuid_at(_, _, _)
MatchUuid_at(s, i, hit) == IF hit.m THEN hit ELSE MatchUuid(s, i + 1)

\* html.match(/uuid=([a-zA-Z0-9_-]+)/), searched from position i on
MatchUuid(s, i) ==
  IF i > Len(s) THEN NoMatch
  ELSE MatchUuid_at(s, i, Group(s, StartsWith(s, i, UUID_EQ), i + Len(UUID_EQ),
                                ScanUuid(s, i + Len(UUID_EQ))))

\* `if (!match) throw ...UUID_EXTRACTION_ERROR; return match[1]`
fetchUUID_match(match) ==
  IF ~match.m THEN [threw |-> TRUE, err |-> "UUID_EXTRACTION_ERROR", uuid |-> <<>>]
  ELSE [threw |-> FALSE, err |-> "", uuid |-> match.g]

\* after the request: an `html` that has no match() is a TypeError, wrapped
\* into a NetworkError like a failed request
fetchUUID_on(r) ==
  IF r.threw \/ r.v.t # "string"
  THEN [threw |-> TRUE, err |-> "NETWORK_ERROR", uuid |-> <<>>]
  ELSE fetchUUID_match(MatchUuid(r.v.s, 1))

\* fetchUUID(): [threw, err, uuid]
fetchUUID(resp) == fetchUUID_on(request(resp))

\* what the qrconnect page may answer: a page with the session in it, a page
\* without, a JSON document, a failure
UuidAnswers ==
  { [ok |-> TRUE, body |-> <<"<", "a", " ">> \o UUID_EQ \o <<"u", "1", "\"", ">">>],
    [ok |-> TRUE, body |-> <<"<", "a", " ">> \o UUID_EQ \o <<"\"", ">">>],
    [ok |-> TRUE, body |-> <<"{", "}">>],
    [ok |-> FALSE, body |-> <<>>] }

DATA == <<"D", "a", "t", "a">>

TOKEN_KEY == <<"T", "o", "k", "e", "n">>

EXPIRE_KEY == <<"E", "x", "p", "i", "r", "e">>

BEARER == <<"B", "e", "a", "r", "e", "r", " ">>

\* `${v}` for the values a token comes as
Template(v) == CASE v.t = "string" -> v.s
                 [] v.t = "number" -> JSONstringify(v)
                 [] OTHER -> <<"?">>

\* a call that threw after its one request
ExchangeThrew(code) == [threw |-> TRUE, err |-> code, calls |-> 1, t |-> EmptyTokenInfo]

\* the check of the two fields, as mutated: a response without expiry still
\* yields a credential
fetchTokenByWxCode_fields_partial(tokenData, expire) ==
  IF ~Truthy(tokenData) THEN ExchangeThrew("INVALID_TOKEN_RESPONSE")
  ELSE IF IsoThrows(expire) THEN ExchangeThrew("NETWORK_ERROR")
  ELSE [threw |-> FALSE, err |-> "", calls |-> 1,
        t |-> NewTokenInfo(Str(BEARER \o Template(tokenData)), expire)]

\* `if (!tokenData || !expire) throw ...INVALID_TOKEN_RESPONSE`, the result
\* with its Bearer prefix, and the log line whose toISOString() may throw
fetchTokenByWxCode_fields(tokenData, expire) ==
  IF ~Truthy(tokenData) \/ ~Truthy(expire) THEN ExchangeThrew("INVALID_TOKEN_RESPONSE")
  ELSE IF IsoThrows(expire) THEN ExchangeThrew("NETWORK_ERROR")
  ELSE [threw |-> FALSE, err |-> "", calls |-> 1,
        t |-> NewTokenInfo(Str(BEARER \o Template(tokenData)), expire)]

\* `response?.Data?.Token` and `response?.Data?.Expire`
fetchTokenByWxCode_data(d) ==
  fetchTokenByWxCode_fields(OptProp(d, TOKEN_KEY), OptProp(d, EXPIRE_KEY))

\* after the one request to the exchange endpoint
fetchTokenByWxCode_on(r) ==
  IF r.threw THEN ExchangeThrew("NETWORK_ERROR")
  ELSE fetchTokenByWxCode_data(OptProp(r.v, DATA))

\* fetchTokenByWxCode(wxCode), wrapped by TokenInfo.fetchTokenByWxCode:
\* [threw, err, calls, t], calls the requests sent to the exchange endpoint
fetchTokenByWxCode(wxCode, resp) ==
  IF ~Truthy(wxCode)
  THEN [threw |-> TRUE, err |-> "MISSING_WX_CODE", calls |-> 0, t |-> EmptyTokenInfo]
  ELSE fetchTokenByWxCode_on(request(resp))

\* what the exchange endpoint may do with the request: answer {"Data":{...}}
\* with Token and Expire each maybe missing, answer {"Data":null}, {}, null or
\* text that is no JSON, or fail
ExchangeAnswers ==
  [kind : {"data"},
   tk : {Undefined, Str(<<>>), Str(<<"t">>)},
   ex : {Undefined, Str(<<"x">>)} \cup {Num(n) : n \in 0..MaxExpire}]
  \cup [kind : {"nodata", "empty", "null", "text", "fail"}, tk : {Undefined}, ex : {Undefined}]

ExchangeResponse(a) ==
  CASE a.kind = "data" ->
         [ok |-> TRUE,
          body |-> JSONstringify(Obj(<<[k |-> DATA,
                                        v |-> Obj(<<[k |-> TOKEN_KEY, v |-> a.tk],
                                                    [k |-> EXPIRE_KEY, v |-> a.ex]>>)]>>))]
    [] a.kind = "nodata" -> [ok |-> TRUE, body |-> JSONstringify(Obj(<<[k |-> DATA, v |-> Null]>>))]
    [] a.kind = "empty" -> [ok |-> TRUE, body |-> <<"{", "}">>]
    [] a.kind = "null" -> [ok |-> TRUE, body |-> <<"n", "u", "l", "l">>]
    [] a.kind = "text" -> [ok |-> TRUE, body |-> <<"o", "o", "p", "s">>]
    [] OTHER -> [ok |-> FALSE, body |-> <<>>]

-----------------------------------------------------------------------------
(* TokenInfo.get_ensureLoggedIn() *)

\* the sessions one call may request in the model
MaxSessions == 2

FetchUuidOutcomes == [a \in UuidAnswers |-> fetchUUID(a)]

ExchangeOutcomes ==
  [c \in ScanCodes, a \in ExchangeAnswers |-> fetchTokenByWxCode(Str(c), ExchangeResponse(a))]

\* the test of the loaded credential, as mutated: the cache is never trusted
EnsureCached_never(t, clock) == FALSE

\* `if (tokenInfo.isValid()) return tokenInfo`
EnsureCached(t, clock) == isValid(t, clock).ret

\* where a failed step of the loop leads, as mutated: a failed save is fatal
AfterFailure_saveThrows(step) == IF step = "save" THEN "threw" ELSE "backoff"

\* where a failed step of the loop leads: the 2 s sleep, then `continue`
AfterFailure(step) == "backoff"

\* the entry holds a credential that save() wrote and that has not expired
StoredValid(e, clock) ==
  /\ Live(e, clock) /\ e.by = "save"
  /\ e.src.token.t = "string" /\ e.src.token.s # <<>>
  /\ e.src.expire.t = "number" /\ clock < e.src.expire.n

\* get_ensureLoggedIn() is called: fromRedis() awaits getClient()
EnsureCall ==
  /\ flow.pc = "idle"
  /\ \E c \in GetClientOutcomes :
       /\ client' = c
       /\ flow' = IF c = "connected" THEN [flow EXCEPT !.pc = "get"]
                  ELSE [flow EXCEPT !.pc = "threw", !.err = "REDIS_ERROR"]
  /\ UNCHANGED <<now, store, ti, call, poll, checkin, sched, job, mail, savers, web>>

\* after fromRedis(): its error goes through the outer catch, a value that did
\* not parse is deleted first, a valid credential is returned, anything else
\* enters the loop
EnsureGet_on(f, r, e, clock) ==
  IF r.k = "throw" THEN [f EXCEPT !.pc = "threw", !.err = "REDIS_ERROR"]
  ELSE IF r.k = "del" THEN [f EXCEPT !.pc = "del"]
  ELSE IF EnsureCached(r.t, clock)
       THEN [f EXCEPT !.pc = "returned", !.path = "cached", !.ret = r.t,
                      !.retAt = clock, !.seen = e, !.sawValid = StoredValid(e, clock)]
  ELSE [f EXCEPT !.pc = "uuid", !.sawValid = StoredValid(e, clock)]

\* fromRedis(): `await client.get(key)`, the parse, and the test of the result
EnsureGet ==
  /\ flow.pc = "get"
  /\ \E ok \in BOOLEAN :
       flow' = IF ~ok THEN [flow EXCEPT !.pc = "threw", !.err = "REDIS_ERROR"]
               ELSE EnsureGet_on(flow, FromRedisRead(RedisGet(store, now), now), Visible(store, now), now)
  /\ UNCHANGED <<now, client, store, ti, call, poll, checkin, sched, job, mail, savers, web>>

\* fromRedis(): `await client.del(key)`; the empty credential is not valid
EnsureDel ==
  /\ flow.pc = "del"
  /\ \E ok \in BOOLEAN :
       IF ~ok THEN /\ flow' = [flow EXCEPT !.pc = "threw", !.err = "REDIS_ERROR"]
                   /\ store' = store
       ELSE /\ store' = NoEntry
            /\ flow' = [flow EXCEPT !.pc = "uuid", !.writes = @ + 1]
  /\ UNCHANGED <<now, client, ti, call, poll, checkin, sched, job, mail, savers, web>>

FetchUUID_on(f, r) ==
  [f EXCEPT !.attempts = @ + 1, !.sessions = @ + 1,
            !.pc = IF r.threw THEN AfterFailure("uuid") ELSE "qr",
            !.failed = IF r.threw THEN "uuid" ELSE ""]

\* `uuid = await fetchUUID()`
FetchUUID ==
  /\ flow.pc = "uuid"
  /\ flow.attempts < MaxSessions
  /\ \E a \in UuidAnswers : flow' = FetchUUID_on(flow, FetchUuidOutcomes[a])
  /\ UNCHANGED <<now, client, store, ti, call, poll, checkin, sched, job, mail, savers, web>>

\* fetchQRCodeBuffer, printAsciiQRCode, sendEmailWithQRCode: each in its own
\* try/catch; then pollWxCode(uuid) is called and runs up to its first await
ShowQr ==
  /\ flow.pc = "qr"
  /\ \E fetched \in BOOLEAN, printed \in BOOLEAN, mailed \in BOOLEAN :
       /\ flow' = [flow EXCEPT !.pc = "poll"]
       /\ poll' = PollLoop(NoPoll)
  /\ UNCHANGED <<now, client, store, ti, call, checkin, sched, job, mail, savers, web>>

\* pollWxCode(uuid) has settled
EnsurePolled ==
  /\ flow.pc = "poll" /\ poll.pc \in {"done", "threw"}
  /\ flow' = IF poll.pc = "threw" THEN [flow EXCEPT !.pc = "threw", !.err = poll.err]
             ELSE IF ~Truthy(poll.result)
                  THEN [flow EXCEPT !.pc = AfterFailure("poll"), !.failed = "poll"]
             ELSE [flow EXCEPT !.pc = "exchange", !.wxCode = poll.result]
  /\ poll' = NoPoll
  /\ UNCHANGED <<now, client, store, ti, call, checkin, sched, job, mail, savers, web>>

\* does the answer carry the field: it is there and not empty or zero
Carries(v) == v \notin {Undefined, Str(<<>>), Num(0)}

\* after the exchange; ex remembers what the endpoint answered and what the
\* call made of it
Exchange_on(f, r, a) ==
  [f EXCEPT !.exchanges = @ + r.calls,
            !.ex = [n |-> r.calls, answered |-> a.kind # "fail",
                    token |-> Carries(a.tk), expire |-> Carries(a.ex),
                    threw |-> r.threw, err |-> r.err],
            !.fresh = r.t,
            !.pc = IF r.threw THEN AfterFailure("exchange") ELSE "save",
            !.failed = IF r.threw THEN "exchange" ELSE ""]

\* `newTokenInfo = await TokenInfo.fetchTokenByWxCode(wxCode)`
Exchange ==
  /\ flow.pc = "exchange"
  /\ \E a \in ExchangeAnswers : flow' = Exchange_on(flow, ExchangeOutcomes[flow.wxCode.s, a], a)
  /\ UNCHANGED <<now, client, store, ti, call, poll, checkin, sched, job, mail, savers, web>>

\* `await newTokenInfo.save()`, then `return newTokenInfo`
EnsureSave ==
  /\ flow.pc = "save"
  /\ \E ok \in BOOLEAN :
       IF ok /\ client = "connected" /\ ~SaveRefuses(flow.fresh)
       THEN /\ store' = RedisSet(SaveJson(flow.fresh), DEFAULT_TTL, now, "save", flow.fresh)
            /\ flow' = IF IsoThrows(flow.fresh.expire)
                       THEN [flow EXCEPT !.writes = @ + 1, !.pc = AfterFailure("save"),
                                         !.failed = "save"]
                       ELSE [flow EXCEPT !.writes = @ + 1, !.pc = "returned",
                                         !.path = "qr", !.ret = flow.fresh, !.retAt = now]
       ELSE /\ store' = store
            /\ flow' = [flow EXCEPT !.pc = AfterFailure("save"), !.failed = "save"]
  /\ UNCHANGED <<now, client, ti, call, poll, checkin, sched, job, mail, savers, web>>

\* the 2 s setTimeout fires and the loop starts over
Backoff ==
  /\ flow.pc = "backoff"
  /\ flow' = [flow EXCEPT !.pc = "uuid", !.failed = "", !.ex = NoExchange,
                          !.fresh = EmptyTokenInfo, !.wxCode = Null]
  /\ UNCHANGED <<now, client, store, ti, call, poll, checkin, sched, job, mail, savers, web>>

\* the entries the store may hold when the process starts: none, a credential
\* a save() wrote at time 0, or a value no save() wrote (one that does not
\* parse, and null)
InitEntries ==
  {NoEntry}
  \cup { RedisSet(SaveJson(t), DEFAULT_TTL, 0, "save", t) :
           t \in {NewTokenInfo(Str(BEARER \o <<"t">>), Num(n)) : n \in 1..MaxExpire} }
  \cup { [present |-> TRUE, json |-> v, expAt |-> 0, by |-> "other",
          src |-> EmptyTokenInfo] : v \in {<<"{", "x">>, <<"n", "u", "l", "l">>} }

Init ==
  /\ now = 0
  /\ client = "null"
  /\ store \in InitEntries
  /\ ti = EmptyTokenInfo
  /\ call = NoCall
  /\ poll = NoPoll
  /\ flow = NoFlow
  /\ checkin = NoCheckin
  /\ sched = NoSched
  /\ job = NoJob
  /\ mail = NoMail
  /\ savers = NoSavers
  /\ web = NoWeb

Next ==
  \/ Tick
  \/ RedisExpire
  \/ EnsureCall
  \/ EnsureGet
  \/ EnsureDel
  \/ FetchUUID
  \/ ShowQr
  \/ PollResponse
  \/ PollTimer
  \/ EnsurePolled
  \/ Exchange
  \/ EnsureSave
  \/ Backoff

Spec == Init /\ [][Next]_vars

-----------------------------------------------------------------------------
(* Claims about TokenInfo, checked under SpecStore *)

\* a token that is there: a string, and not the empty one
TokenPresent(t) == t.t = "string" /\ t.s # <<>>

\* a (token, expire) pair of the declared types string | null, number | null
Typed(t) == t.token.t \in {"string", "null"} /\ t.expire.t \in {"number", "null"}

\* C2: for every (token, expire) pair and every clock value isValid() returns
\* true exactly when the token is present (a non-empty string), the expiry is
\* present and the clock is strictly before the expiry; at clock = expiry it is
\* false
C2_isValidIff ==
  (call.op = "isValid" /\ Typed(call.arg)) =>
     /\ call.pc = "done"
     /\ call.ret = (/\ TokenPresent(call.arg.token)
                    /\ call.arg.expire.t = "number"
                    /\ call.at < call.arg.expire.n)

\* isValid() was asked at the very millisecond of the expiry, and said no
C2_witness ==
  /\ call.op = "isValid" /\ call.pc = "done"
  /\ TokenPresent(call.arg.token)
  /\ call.at > 0 /\ call.arg.expire = Num(call.at)
  /\ ~call.ret

\* fromRedis() read a value that no save() wrote, and Redis itself answered
ReadCorrupted ==
  /\ call.op = "fromRedis" /\ call.pc \in {"done", "threw"}
  /\ call.err # "redis"
  /\ call.seen.present /\ call.seen.by = "other"

\* C3: whatever corrupted value is stored under the key, fromRedis() does not
\* raise, returns the empty credential and removes the entry
C3_corruptedDiscarded ==
  ReadCorrupted => /\ call.pc = "done"
                   /\ ti = EmptyTokenInfo
                   /\ call.dels = 1

\* C4: save() followed by fromRedis() of the entry it wrote returns a credential
\* with the same token and the same expiry
C4_roundTrip ==
  (/\ call.op = "fromRedis" /\ call.pc \in {"done", "threw"} /\ call.err # "redis"
   /\ call.seen.by = "save" /\ Typed(call.seen.src)) =>
     /\ call.pc = "done"
     /\ ti.token = call.seen.src.token
     /\ ti.expire = call.seen.src.expire

\* a token with a quote and a backslash in it came back from the store
C4_witness ==
  /\ call.op = "fromRedis" /\ call.pc = "done"
  /\ call.seen.by = "save"
  /\ ti.token = Str(<<"a", "\"", "\\">>)
  /\ ti.expire = Num(MaxExpire)

-----------------------------------------------------------------------------
(* Claims about pollWxCode, checked under SpecPoll *)

\* the answers that end the polling: scanned with a code, expired
Scanned(a) == a.kind = "status" /\ a.n = 405 /\ a.c # <<>>

Expired(a) == a.kind = "status" /\ a.n = 403

PollActive == poll.pc \in {"await", "sleep"}

\* C7: pollWxCode returns the code of the first answer that is scanned with a
\* code, null at the first expired answer, and goes on polling after every other
\* answer; it has issued exactly one request per answer consumed
C7_pollResult ==
  /\ poll.requests = poll.polls
  /\ poll.requests = poll.consumed + (IF poll.pc = "await" THEN 1 ELSE 0)
  /\ (PollActive /\ poll.consumed > 0) => ~Scanned(poll.last) /\ ~Expired(poll.last)
  /\ (poll.pc = "done" /\ poll.consumed > 0 /\ Scanned(poll.last)) =>
        poll.result = Str(poll.last.c)
  /\ (poll.pc = "done" /\ poll.consumed > 0 /\ Expired(poll.last)) => poll.result = Null
  /\ (poll.pc = "done" /\ poll.result # Null) => Scanned(poll.last)
  /\ (poll.pc = "done" /\ poll.requests < maxPolls) =>
        Scanned(poll.last) \/ Expired(poll.last)

\* three times "still waiting", then scanned with code abc: abc after 4 requests
C7_witness ==
  /\ poll.pc = "done"
  /\ poll.result = Str(<<"a", "b", "c">>)
  /\ poll.prior = "waits"
  /\ poll.requests = 4

C9_failureSwallowed ==
  /\ poll.fails => poll.pc # "threw"
  /\ (poll.pc = "sleep" /\ poll.last.kind = "fail") => poll.delay = 2000
  /\ (poll.pc = "sleep" /\ poll.last.kind = "fail") => ENABLED PollTimer
  /\ (poll.pc = "sleep" /\ poll.last.kind = "fail" /\ poll.polls < maxPolls) =>
        ENABLED (PollTimer /\ poll'.pc = "await")
  /\ (poll.fails /\ poll.pc = "done" /\ Scanned(poll.last)) =>
        poll.result = Str(poll.last.c)

\* a request failed, and the code of a later answer was returned
C9_witness ==
  /\ poll.fails
  /\ poll.pc = "done"
  /\ poll.result = Str(<<"a", "b", "c">>)

-----------------------------------------------------------------------------
(* Claims about get_ensureLoggedIn and the exchange, checked under Spec *)

\* C1: the credential get_ensureLoggedIn() returns is valid at the moment it is
\* returned (token present, expiry a number, clock before the expiry), on the
\* cached path and on the QR path alike
C1_returnedValid ==
  flow.pc = "returned" =>
     /\ TokenPresent(flow.ret.token)
     /\ flow.ret.expire.t = "number"
     /\ flow.retAt < flow.ret.expire.n

\* C5: when the store holds a valid credential, get_ensureLoggedIn() returns
\* that credential at once: no session is requested, no status request and no
\* exchange is made, and the call writes nothing to the store
C5_cachedShortCut ==
  flow.sawValid =>
     /\ flow.pc = "returned" /\ flow.path = "cached"
     /\ flow.ret = flow.seen.src
     /\ flow.sessions = 0 /\ flow.exchanges = 0 /\ flow.writes = 0
     /\ poll = NoPoll

\* the credential saved with expiry MaxExpire was returned from the cache
\* after the clock had moved
C5_witness ==
  /\ flow.sawValid /\ flow.pc = "returned" /\ flow.path = "cached"
  /\ flow.retAt > 0
  /\ flow.ret.expire = Num(MaxExpire)

InLoop(pc) == pc \in {"uuid", "qr", "poll", "exchange", "save", "backoff"}

\* one step of the login flow, as the loop allows it
LoopStep ==
  /\ (flow.pc = "uuid" /\ flow'.pc # "uuid") =>
       /\ flow'.pc = (IF flow'.failed = "uuid" THEN "backoff" ELSE "qr")
       /\ flow'.sessions = flow.sessions + 1
  /\ (flow.pc = "qr" /\ flow'.pc # "qr") => flow'.pc = "poll"
  /\ (flow.pc = "poll" /\ flow'.pc # "poll") =>
       flow'.pc = (IF Truthy(poll.result) THEN "exchange" ELSE "backoff")
  /\ (flow.pc = "exchange" /\ flow'.pc # "exchange") =>
       flow'.pc = (IF flow'.ex.threw THEN "backoff" ELSE "save")
  /\ (flow.pc = "save" /\ flow'.pc # "save") =>
       flow'.pc = (IF flow'.failed = "save" THEN "backoff" ELSE "returned")
  /\ (flow.pc = "backoff" /\ flow'.pc # "backoff") => flow'.pc = "uuid"
  /\ (InLoop(flow.pc) /\ ~InLoop(flow'.pc)) =>
       flow'.pc = "returned" /\ flow'.ret = flow.fresh
  /\ flow.pc = "returned" => flow' = flow

\* C6: inside the QR loop a step either hands over to the next step or, when
\* it failed (no session, no code from the poll, a failed exchange, a failed
\* save), to the backoff; the backoff leads to a fresh session request, which
\* is there to be made; the loop is left only by returning a credential
C6_failureBacksOff ==
  /\ [](flow.pc = "backoff" => ENABLED Backoff)
  /\ []((flow.pc = "uuid" /\ flow.attempts < MaxSessions) => ENABLED FetchUUID)
  /\ [][LoopStep]_vars

\* a session whose step failed was followed by a second session, which
\* returned the credential
C6_witness ==
  /\ flow.pc = "returned" /\ flow.path = "qr"
  /\ flow.sessions = 2

\* C10: fetchTokenByWxCode sends exactly one request to the exchange endpoint;
\* an answer that lacks the token or the expiry makes it fail with
\* INVALID_TOKEN_RESPONSE, with no second request and no credential built from
\* the part that was there
C10_exchangeOnce ==
  flow.ex # NoExchange =>
     /\ flow.ex.n = 1
     /\ flow.exchanges <= flow.sessions
     /\ ((flow.ex.answered /\ (~flow.ex.token \/ ~flow.ex.expire)) =>
          (/\ flow.ex.threw /\ flow.ex.err = "INVALID_TOKEN_RESPONSE"
           /\ flow.fresh = EmptyTokenInfo
           /\ flow.pc = "backoff" /\ flow.failed = "exchange"))

\* the endpoint answered a token without an expiry, and the call failed
C10_witness ==
  /\ flow.ex.n = 1 /\ flow.ex.answered
  /\ flow.ex.token /\ ~flow.ex.expire
  /\ flow.ex.err = "INVALID_TOKEN_RESPONSE"

-----------------------------------------------------------------------------
(* The check-in client (src/lib/checkin-utils.ts): getCheckInInfo and        *)
(* submitCheckIn.  A coordinate is a JavaScript number held in millionths of *)
(* a degree, or NaN: [nan |-> BOOLEAN, u |-> Int].  A location is            *)
(* [t |-> "location", latitude |-> coordinate, longitude |-> coordinate]     *)

\* millionths in one degree: DEFAULT_LOCATION is written with six decimals
Micro == 1000000

THREAD_ID == 163231508

Deg(u) == [nan |-> FALSE, u |-> u]

NaN == [nan |-> TRUE, u |-> 0]

\* `a < b` on numbers: false as soon as one side is NaN
NumLess(a, b) == ~a.nan /\ ~b.nan /\ a.u < b.u

\* `a > b` on numbers
NumGreater(a, b) == ~a.nan /\ ~b.nan /\ a.u > b.u

Loc(lat, lon) == [t |-> "location", latitude |-> lat, longitude |-> lon]

DEFAULT_LOCATION == Loc(Deg(28423147), Deg(117976543))

\* '上饶市信州区•上饶师范学院', one code point per character
PLACE_NAME ==
  <<"U+4E0A", "U+9976", "U+5E02", "U+4FE1", "U+5DDE", "U+533A", "U+2022",
    "U+4E0A", "U+9976", "U+5E08", "U+8303", "U+5B66", "U+9662">>

\* validateLocation(location): the field of the ValidationError it throws, ""
\* when it returns
validateLocation(location) ==
  IF NumLess(location.latitude, Deg(-90 * Micro)) \/ NumGreater(location.latitude, Deg(90 * Micro))
  THEN "latitude"
  ELSE IF NumLess(location.longitude, Deg(-180 * Micro)) \/ NumGreater(location.longitude, Deg(180 * Micro))
  THEN "longitude"
  ELSE ""

WhiteSpace == {" ", "\t", "\n", "\r"}

RECURSIVE TrimStart(_)
TrimStart(s) == IF s # <<>> /\ Head(s) \in WhiteSpace THEN TrimStart(Tail(s)) ELSE s

RECURSIVE TrimEnd(_)
TrimEnd(s) == IF s # <<>> /\ s[Len(s)] \in WhiteSpace THEN TrimEnd(SubSeq(s, 1, Len(s) - 1)) ELSE s

\* String.prototype.trim
Trim(s) == TrimEnd(TrimStart(s))

RECURSIVE PadStart(_, _)
\* s.padStart(n, '0')
PadStart(s, n) == IF Len(s) >= n THEN s ELSE PadStart(<<"0">> \o s, n)

RECURSIVE StripZeros(_)
StripZeros(s) == IF s # <<>> /\ s[Len(s)] = "0" THEN StripZeros(SubSeq(s, 1, Len(s) - 1)) ELSE s

\* the decimals of a magnitude m, in millionths: none when it is whole
Decimals_on(frac) == IF frac = <<>> THEN <<>> ELSE <<".">> \o frac

Decimals(m) == Decimals_on(StripZeros(PadStart(Digits(m % Micro), 6)))

\* Number::toString of a magnitude of at least one millionth, or of zero
Magnitude(m) == Digits(m \div Micro) \o Decimals(m)

\* JSON.stringify of a number: NaN is written null, -0 is written 0
StringifyNumber(x) ==
  IF x.nan THEN <<"n", "u", "l", "l">>
  ELSE IF x.u < 0 THEN <<"-">> \o Magnitude(-x.u)
  ELSE Magnitude(x.u)

\* JSON.stringify(finalLocation): the members in the order of the Location
\* interface
StringifyLocation(location) ==
  <<"{">> \o Quote(<<"l", "a", "t", "i", "t", "u", "d", "e">>) \o <<":">>
    \o StringifyNumber(location.latitude) \o <<",">>
    \o Quote(<<"l", "o", "n", "g", "i", "t", "u", "d", "e">>) \o <<":">>
    \o StringifyNumber(location.longitude) \o <<"}">>

\* the payload, as mutated: the signature is sent as given
CheckInPayload_untrimmed(signature, finalLocation) ==
  [Id |-> 0, ThreadId |-> THREAD_ID, Signature |-> signature,
   RecordValues |->
     <<[FieldId |-> 1, Values |-> <<>>, Texts |-> <<>>, HasValue |-> FALSE],
       [FieldId |-> 2, Values |-> <<StringifyLocation(finalLocation)>>,
        Texts |-> <<PLACE_NAME>>, HasValue |-> TRUE]>>]

\* `const payload: CheckInPayload = { ... }`
CheckInPayload(signature, finalLocation) ==
  [Id |-> 0, ThreadId |-> THREAD_ID, Signature |-> Trim(signature),
   RecordValues |->
     <<[FieldId |-> 1, Values |-> <<>>, Texts |-> <<>>, HasValue |-> FALSE],
       [FieldId |-> 2, Values |-> <<StringifyLocation(finalLocation)>>,
        Texts |-> <<PLACE_NAME>>, HasValue |-> TRUE]>>]

\* the call as it is entered
Entered(op, token, signature, location) ==
  [NoCheckin EXCEPT !.op = op, !.token = token, !.signature = signature, !.location = location]

\* `throw new ValidationError(message, field)`
Invalid(c, field) == [c EXCEPT !.pc = "threw", !.err = "ValidationError", !.field = field]

\* `await request(url, options, token)`, up to the await
Requested(c, api, method, body) ==
  [c EXCEPT !.pc = "await", !.requests = @ + 1,
            !.req = [api |-> api, method |-> method, token |-> c.token, body |-> body]]

\* getCheckInInfo(token), up to its first await
getCheckInInfo(token) ==
  IF ~Truthy(token) THEN Invalid(Entered("getCheckInInfo", token, Undefined, Undefined), "")
  ELSE IF THREAD_ID = 0 \/ THREAD_ID <= 0
  THEN Invalid(Entered("getCheckInInfo", token, Undefined, Undefined), "threadId")
  ELSE Requested(Entered("getCheckInInfo", token, Undefined, Undefined), "INFO", "GET", Undefined)

\* submitCheckIn after `validateLocation(finalLocation)` threw on field, or
\* returned
submitCheckIn_validated(c, finalLocation, field) ==
  IF field # "" THEN Invalid(c, field)
  ELSE Requested(c, "SUBMIT", "POST", CheckInPayload(c.signature.s, finalLocation))

\* submitCheckIn from `const finalLocation = location || DEFAULT_LOCATION` on
submitCheckIn_on(c, finalLocation) ==
  submitCheckIn_validated(c, finalLocation, validateLocation(finalLocation))

\* submitCheckIn(token, signature, location), up to its first await
submitCheckIn(token, signature, location) ==
  IF ~Truthy(token) THEN Invalid(Entered("submitCheckIn", token, signature, location), "")
  ELSE IF ~Truthy(signature) \/ Len(Trim(signature.s)) = 0
  THEN Invalid(Entered("submitCheckIn", token, signature, location), "signature")
  ELSE submitCheckIn_on(Entered("submitCheckIn", token, signature, location),
                        IF Truthy(location) THEN location ELSE DEFAULT_LOCATION)

\* what the check-in API answers: a failure, a JSON document, a text
CheckinAnswers ==
  {[ok |-> FALSE, body |-> <<>>], [ok |-> TRUE, body |-> <<"{", "}">>], [ok |-> TRUE, body |-> <<"o", "k">>]}

\* request() on each answer of the check-in API
CheckinOutcomes == [a \in CheckinAnswers |-> request(a)]

\* the rest of getCheckInInfo / submitCheckIn: `return response`, or the catch
\* that rethrows the NetworkError of request()
CheckinSettle(c, r) ==
  IF r.threw THEN [c EXCEPT !.pc = "threw", !.err = "NetworkError"]
  ELSE [c EXCEPT !.pc = "done", !.ret = r.v]

CheckinTokens == {Null, Str(<<>>), Str(<<"t">>)}

SignatureInputs ==
  {Null, Str(<<>>), Str(<<" ">>), Str(<<"A", "l", "i", "c", "e">>), Str(<<" ", "A", " ", "b", "\t">>)}

LatitudeInputs ==
  {NaN} \cup {Deg(u) : u \in {-90 * Micro - 1, -90 * Micro, 500000, 90 * Micro, 90 * Micro + 1, 91 * Micro}}

LongitudeInputs ==
  {NaN} \cup {Deg(u) : u \in {-180 * Micro - 1, -180 * Micro, 0, -7000010, 180 * Micro, 180 * Micro + 1}}

LocationInputs ==
  {Undefined, Null} \cup {Loc(lat, lon) : lat \in LatitudeInputs, lon \in LongitudeInputs}

CheckinResting == checkin.pc \in {"idle", "done", "threw"}

GetCheckInInfoCall ==
  /\ CheckinResting
  /\ \E token \in CheckinTokens : checkin' = getCheckInInfo(token)
  /\ UNCHANGED <<now, client, store, ti, call, poll, flow, sched, job, mail, savers, web>>

SubmitCheckInCall ==
  /\ CheckinResting
  /\ \E token \in CheckinTokens, signature \in SignatureInputs, location \in LocationInputs :
       checkin' = submitCheckIn(token, signature, location)
  /\ UNCHANGED <<now, client, store, ti, call, poll, flow, sched, job, mail, savers, web>>

CheckinResponse ==
  /\ checkin.pc = "await"
  /\ \E a \in CheckinAnswers : checkin' = CheckinSettle(checkin, CheckinOutcomes[a])
  /\ UNCHANGED <<now, client, store, ti, call, poll, flow, sched, job, mail, savers, web>>

InitCheckin ==
  /\ now = 0
  /\ client = "null"
  /\ store = NoEntry
  /\ ti = EmptyTokenInfo
  /\ call = NoCall
  /\ poll = NoPoll
  /\ flow = NoFlow
  /\ checkin = NoCheckin
  /\ sched = NoSched
  /\ job = NoJob
  /\ mail = NoMail
  /\ savers = NoSavers
  /\ web = NoWeb

NextCheckin ==
  \/ GetCheckInInfoCall
  \/ SubmitCheckInCall
  \/ CheckinResponse

SpecCheckin == InitCheckin /\ [][NextCheckin]_vars

-----------------------------------------------------------------------------
(* Claims about the check-in client, checked under SpecCheckin *)

\* the call in progress or last made is a submitCheckIn
Submitting == checkin.op = "submitCheckIn"

Blank(s) == \A i \in 1..Len(s) : s[i] \in WhiteSpace

\* -90 <= latitude <= 90 and -180 <= longitude <= 180
InRange(location) ==
  /\ ~location.latitude.nan
  /\ -90 * Micro <= location.latitude.u
  /\ location.latitude.u <= 90 * Micro
  /\ ~location.longitude.nan
  /\ -180 * Micro <= location.longitude.u
  /\ location.longitude.u <= 180 * Micro

Supplied(location) == location.t = "location"

\* the call failed with a ValidationError
Rejected == checkin.pc = "threw" /\ checkin.err = "ValidationError"

\* the arguments reach validateLocation with a supplied location
ReachesValidation ==
  /\ Submitting
  /\ Truthy(checkin.token)
  /\ Truthy(checkin.signature)
  /\ ~Blank(checkin.signature.s)
  /\ Supplied(checkin.location)

\* C11: a call of getCheckInInfo or submitCheckIn with an empty token, and a
\* call of submitCheckIn with a signature that is empty after trimming or with
\* a supplied location out of range, fails with a ValidationError and issues no
\* HTTP request
C11_validatesFirst ==
  (/\ checkin.op \in {"getCheckInInfo", "submitCheckIn"}
   /\ \/ ~Truthy(checkin.token)
      \/ Submitting /\ (~Truthy(checkin.signature) \/ Blank(checkin.signature.s))
      \/ Submitting /\ Supplied(checkin.location) /\ ~InRange(checkin.location))
    => Rejected /\ checkin.requests = 0

\* C12: validateLocation accepts the supplied location if and only if
\* -90 <= latitude <= 90 and -180 <= longitude <= 180
C12_rangeIff == ReachesValidation => (~Rejected <=> InRange(checkin.location))

\* the location whose JSON text the payload carries
Effective(location) == IF Supplied(location) THEN location ELSE DEFAULT_LOCATION

\* t is s without the white space at its two ends
Trimmed(s, t) ==
  /\ t # <<>> => Head(t) \notin WhiteSpace /\ t[Len(t)] \notin WhiteSpace
  /\ \E i \in 1..(Len(s) + 1) :
       /\ i + Len(t) - 1 <= Len(s)
       /\ SubSeq(s, i, i + Len(t) - 1) = t
       /\ \A j \in 1..Len(s) : (j < i \/ j >= i + Len(t)) => s[j] \in WhiteSpace

\* '{"latitude":28.423147,"longitude":117.976543}'
DefaultLocationText ==
  <<"{", "\"", "l", "a", "t", "i", "t", "u", "d", "e", "\"", ":",
    "2", "8", ".", "4", "2", "3", "1", "4", "7", ",",
    "\"", "l", "o", "n", "g", "i", "t", "u", "d", "e", "\"", ":",
    "1", "1", "7", ".", "9", "7", "6", "5", "4", "3", "}">>

\* C13: the payload submitCheckIn sends has Id 0, the fixed thread id, the
\* trimmed signature and exactly two records in this order: field 1 with no
\* values and HasValue false, field 2 with the JSON text of the location as
\* its one value, the fixed place name as its one text and HasValue true; the
\* location is the supplied one, or the default (28.423147, 117.976543) when
\* none is supplied
C13_payload ==
  (Submitting /\ checkin.requests > 0) =>
    /\ checkin.requests = 1
    /\ checkin.req.api = "SUBMIT"
    /\ checkin.req.body.Id = 0
    /\ checkin.req.body.ThreadId = 163231508
    /\ Trimmed(checkin.signature.s, checkin.req.body.Signature)
    /\ Len(checkin.req.body.RecordValues) = 2
    /\ checkin.req.body.RecordValues[1] =
         [FieldId |-> 1, Values |-> <<>>, Texts |-> <<>>, HasValue |-> FALSE]
    /\ checkin.req.body.RecordValues[2].FieldId = 2
    /\ checkin.req.body.RecordValues[2].HasValue
    /\ checkin.req.body.RecordValues[2].Texts = <<PLACE_NAME>>
    /\ checkin.req.body.RecordValues[2].Values = <<StringifyLocation(Effective(checkin.location))>>
    /\ ~Supplied(checkin.location) => checkin.req.body.RecordValues[2].Values = <<DefaultLocationText>>

\* a submission of " A b\t" with no location has been answered
C13_witness ==
  /\ Submitting
  /\ checkin.pc = "done"
  /\ checkin.signature.s = <<" ", "A", " ", "b", "\t">>
  /\ checkin.req.body.Signature = <<"A", " ", "b">>
  /\ checkin.location = Undefined

-----------------------------------------------------------------------------
(* The notifier (src/lib/email-utils.ts, lines 1 to 297).  A Buffer is        *)
(* [t |-> "buffer", length |-> n]                                             *)

Buffer(n) == [t |-> "buffer", length |-> n]

\* createMailSender() and getEmailConfig(): they return, or throw
SenderOutcomes == {"ok", "throws"}

\* the notifier as an operation enters it
MailEntered(m, op) == [NoMail EXCEPT !.EMAIL_ENABLED = m.EMAIL_ENABLED, !.op = op]

\* the operation returns, having logged the error it caught, if any
MailDone(m, caught, delivered) ==
  [m EXCEPT !.pc = "done", !.caught = caught, !.delivered = delivered]

\* `throw new ValidationError(...)` out of the operation
MailThrew(m) == [m EXCEPT !.pc = "threw", !.err = "ValidationError"]

\* the body of the try block up to its first await, entered at pc: a throw of
\* createMailSender() or getEmailConfig() goes to the catch block
MailTry(m, sender, pc, subject) ==
  IF sender = "throws" THEN MailDone(m, "AppError", FALSE)
  ELSE [m EXCEPT !.pc = pc, !.subject = subject]

\* sendEmailWithQRCode from `if (!uuid || ...)` on: the two checks of the
\* arguments stand before the try block
sendEmailWithQRCode_on(m, sender) ==
  IF ~Truthy(m.uuid) \/ Len(Trim(m.uuid.s)) = 0 THEN MailThrew(m)
  ELSE IF m.qrBuffer.t # "buffer" \/ m.qrBuffer.length = 0 THEN MailThrew(m)
  ELSE MailTry(m, sender, "write", <<"q", "r">>)

\* sendEmailWithQRCode(uuid, qrBuffer) up to its first await
sendEmailWithQRCode(m, uuid, qrBuffer, sender) ==
  IF ~m.EMAIL_ENABLED
  THEN MailDone([MailEntered(m, "sendEmailWithQRCode") EXCEPT !.uuid = uuid, !.qrBuffer = qrBuffer],
                "", FALSE)
  ELSE sendEmailWithQRCode_on(
         [MailEntered(m, "sendEmailWithQRCode") EXCEPT !.uuid = uuid, !.qrBuffer = qrBuffer],
         sender)

\* '未知'
UNKNOWN == <<"U+672A", "U+77E5">>

\* `typeof raw === 'string' ? raw : JSON.stringify(raw || '未知')`, then
\* `${resultData || '未知'}` in the subject
ResultData_on(raw) ==
  IF raw.t = "string" THEN (IF raw.s = <<>> THEN UNKNOWN ELSE raw.s)
  ELSE IF Truthy(raw) THEN JSONstringify(raw)
  ELSE <<"\"">> \o UNKNOWN \o <<"\"">>

\* `result?.['Data']`
ResultData(result) == ResultData_on(OptProp(result, <<"D", "a", "t", "a">>))

\* sendCheckinResult(result) up to its first await
sendCheckinResult(m, result, sender) ==
  IF ~m.EMAIL_ENABLED
  THEN MailDone([MailEntered(m, "sendCheckinResult") EXCEPT !.result = result], "", FALSE)
  ELSE MailTry([MailEntered(m, "sendCheckinResult") EXCEPT !.result = result],
               sender, "send", ResultData(result))

\* `isExpiringSoon ? 'Token即将过期提醒' : 'Token已过期，需要重新授权'`
ExpiredSubject(isExpiringSoon) ==
  IF isExpiringSoon THEN <<"s", "o", "o", "n">> ELSE <<"e", "x", "p", "i", "r", "e", "d">>

\* sendTokenExpiredEmail(reauthUrl, isExpiringSoon) up to its first await
sendTokenExpiredEmail(m, reauthUrl, isExpiringSoon, sender) ==
  IF ~m.EMAIL_ENABLED
  THEN MailDone([MailEntered(m, "sendTokenExpiredEmail") EXCEPT
                   !.reauthUrl = reauthUrl, !.isExpiringSoon = isExpiringSoon], "", FALSE)
  ELSE MailTry([MailEntered(m, "sendTokenExpiredEmail") EXCEPT
                  !.reauthUrl = reauthUrl, !.isExpiringSoon = isExpiringSoon],
               sender, "send", ExpiredSubject(isExpiringSoon))

\* `await fs.writeFile(qrPath, qrBuffer)` resolved or rejected
Written(m, ok) == IF ok THEN [m EXCEPT !.pc = "send"] ELSE MailDone(m, "Error", FALSE)

\* `await transporter.sendMail(mailOptions)` resolved or rejected; only
\* sendEmailWithQRCode has a temporary file to remove
Sent(m, ok) ==
  IF ~ok THEN MailDone(m, "Error", FALSE)
  ELSE IF m.op = "sendEmailWithQRCode" THEN [m EXCEPT !.pc = "unlink", !.delivered = TRUE]
  ELSE MailDone(m, "", TRUE)

\* `await fs.unlink(qrPath)` in its own try block
Unlinked(m, ok) == MailDone(m, "", TRUE)

UuidArguments == {Undefined, Str(<<>>), Str(<<" ">>), Str(<<"u", "1">>)}

\* not a Buffer, Buffer.alloc(0), a picture
BufferArguments == {Undefined, Buffer(0), Buffer(1)}

\* no result, null, {}, {"Data":"ok"}, {"Data":""}, {"Data":7}
ResultArguments ==
  {Undefined, Null, Obj(<<>>)}
    \cup {Obj(<<[k |-> <<"D", "a", "t", "a">>, v |-> v]>>) : v \in {Str(<<"o", "k">>), Str(<<>>), Num(7)}}

\* no address, an address, the options object performDailyCheckin passes
UrlArguments ==
  {Undefined, Str(<<"u">>), Obj(<<[k |-> <<"r", "e", "a", "u", "t", "h", "U", "r", "l">>, v |-> Str(<<"u">>)]>>)}

MailResting == mail.pc \in {"idle", "done", "threw"}

SendEmailWithQRCodeCall ==
  /\ MailResting
  /\ \E uuid \in UuidArguments, qrBuffer \in BufferArguments, sender \in SenderOutcomes :
       mail' = sendEmailWithQRCode(mail, uuid, qrBuffer, sender)
  /\ UNCHANGED <<now, client, store, ti, call, poll, flow, checkin, sched, job, savers, web>>

SendCheckinResultCall ==
  /\ MailResting
  /\ \E result \in ResultArguments, sender \in SenderOutcomes :
       mail' = sendCheckinResult(mail, result, sender)
  /\ UNCHANGED <<now, client, store, ti, call, poll, flow, checkin, sched, job, savers, web>>

SendTokenExpiredEmailCall ==
  /\ MailResting
  /\ \E reauthUrl \in UrlArguments, isExpiringSoon \in BOOLEAN, sender \in SenderOutcomes :
       mail' = sendTokenExpiredEmail(mail, reauthUrl, isExpiringSoon, sender)
  /\ UNCHANGED <<now, client, store, ti, call, poll, flow, checkin, sched, job, savers, web>>

MailWrite ==
  /\ mail.pc = "write"
  /\ \E ok \in BOOLEAN : mail' = Written(mail, ok)
  /\ UNCHANGED <<now, client, store, ti, call, poll, flow, checkin, sched, job, savers, web>>

MailSend ==
  /\ mail.pc = "send"
  /\ \E ok \in BOOLEAN : mail' = Sent(mail, ok)
  /\ UNCHANGED <<now, client, store, ti, call, poll, flow, checkin, sched, job, savers, web>>

MailUnlink ==
  /\ mail.pc = "unlink"
  /\ \E ok \in BOOLEAN : mail' = Unlinked(mail, ok)
  /\ UNCHANGED <<now, client, store, ti, call, poll, flow, checkin, sched, job, savers, web>>

\* revalidateEmailConfig(): EMAIL_ENABLED follows the environment
RevalidateEmailConfig ==
  /\ \E hasEmailConfig \in BOOLEAN, hasEmailRecipient \in BOOLEAN :
       mail' = [mail EXCEPT !.EMAIL_ENABLED = hasEmailConfig /\ hasEmailRecipient]
  /\ UNCHANGED <<now, client, store, ti, call, poll, flow, checkin, sched, job, savers, web>>

\* EMAIL_ENABLED as the module load leaves it: hasEmailConfig() and
\* hasEmailRecipient()
MailConfigs == {[NoMail EXCEPT !.EMAIL_ENABLED = b] : b \in BOOLEAN}

InitMail ==
  /\ now = 0
  /\ client = "null"
  /\ store = NoEntry
  /\ ti = EmptyTokenInfo
  /\ call = NoCall
  /\ poll = NoPoll
  /\ flow = NoFlow
  /\ checkin = NoCheckin
  /\ sched = NoSched
  /\ job = NoJob
  /\ mail \in MailConfigs
  /\ savers = NoSavers
  /\ web = NoWeb

NextMail ==
  \/ SendEmailWithQRCodeCall
  \/ SendCheckinResultCall
  \/ SendTokenExpiredEmailCall
  \/ MailWrite
  \/ MailSend
  \/ MailUnlink
  \/ RevalidateEmailConfig

SpecMail == InitMail /\ [][NextMail]_vars

-----------------------------------------------------------------------------
(* performDailyCheckin (scheduler.ts, carried in src/unnamed/part_001): the   *)
(* job the cron timer and triggerManualCheckin run.  It uses checkin for its  *)
(* calls of the check-in client and mail for its call of the notifier         *)

\* process.env['USER_NAME']: unset, blank, a name
UserNames == {Undefined, Str(<<" ">>), Str(<<"A", "l", "i", "c", "e">>)}

\* the options object passed where sendTokenExpiredEmail expects reauthUrl
EmailOptions == Obj(<<[k |-> <<"r", "e", "a", "u", "t", "h", "U", "r", "l">>, v |-> Str(<<"u">>)]>>)

\* the catch block, as mutated: the error is thrown on
Caught_rethrown(j, error) == [j EXCEPT !.pc = "threw", !.caught = error]

\* the catch block: the error is logged; none of the errors raised in the try
\* block is an AuthenticationError, so no message is sent from here
Caught(j, error) == [j EXCEPT !.pc = "done", !.caught = error]

\* performDailyCheckin() up to `await TokenInfo.fromRedis()`, whose first
\* await is getClient()
performDailyCheckin(by, userName) ==
  IF ~Truthy(userName)
  THEN Caught([NoJob EXCEPT !.by = by, !.userName = userName], "MISSING_USER_NAME")
  ELSE [NoJob EXCEPT !.by = by, !.userName = userName, !.pc = "client"]

\* after fromRedis() returned t: `if (!tokenInfo.isValid())` with the message
\* `if (isEmailEnabled())`, else getCheckInInfo(tokenInfo.getToken())
Loaded(j, t, valid, enabled) ==
  IF ~valid THEN (IF enabled THEN [j EXCEPT !.tokenInfo = t, !.pc = "alert", !.alerts = @ + 1]
                  ELSE [j EXCEPT !.tokenInfo = t, !.pc = "done"])
  ELSE [j EXCEPT !.tokenInfo = t, !.pc = "info"]

\* fromRedis() after client.get(key) answered, then the test of the credential
JobGet_on(j, r, enabled, clock) ==
  IF r.k = "throw" THEN Caught(j, "REDIS_ERROR")
  ELSE IF r.k = "del" THEN [j EXCEPT !.pc = "del"]
  ELSE Loaded(j, r.t, isValid(r.t, clock).ret, enabled)

\* the entry after `client.del(key)`, as mutated: an empty credential is saved
Deleted_resaved(e) == RedisSet(SaveJson(EmptyTokenInfo), DEFAULT_TTL, 0, "save", EmptyTokenInfo)

\* the entry after `client.del(key)`
Deleted(e) == NoEntry

\* the calls the activation makes as it enters pc "alert" or "info"
JobCalls(j, m, c, sender) ==
  /\ mail' = IF j.pc = "alert" THEN sendTokenExpiredEmail(m, EmailOptions, FALSE, sender) ELSE m
  /\ checkin' = IF j.pc = "info" THEN getCheckInInfo(j.tokenInfo.token) ELSE c

\* fromRedis(): `await getClient()`
JobClient ==
  /\ job.pc = "client"
  /\ \E c \in GetClientOutcomes :
       /\ client' = c
       /\ job' = IF c = "connected" THEN [job EXCEPT !.pc = "get"] ELSE Caught(job, "REDIS_ERROR")
  /\ UNCHANGED <<now, store, ti, call, poll, flow, checkin, sched, mail, savers, web>>

\* fromRedis(): `await client.get(key)` and what follows up to the next await
JobGet ==
  /\ job.pc = "get"
  /\ \E ok \in BOOLEAN, sender \in SenderOutcomes :
       /\ job' = IF ~ok THEN Caught(job, "REDIS_ERROR")
                 ELSE JobGet_on([job EXCEPT !.read = TRUE, !.seen = Visible(store, now), !.at = now],
                                FromRedisRead(RedisGet(store, now), now), mail.EMAIL_ENABLED, now)
       /\ JobCalls(job', mail, checkin, sender)
  /\ UNCHANGED <<now, client, store, ti, call, poll, flow, sched, savers, web>>

\* fromRedis(): `await client.del(key)` of the entry that did not parse, then
\* the test of the empty credential
JobDel ==
  /\ job.pc = "del"
  /\ \E ok \in BOOLEAN, sender \in SenderOutcomes :
       /\ job' = IF ~ok THEN Caught(job, "REDIS_ERROR")
                 ELSE Loaded([job EXCEPT !.dels = @ + 1], EmptyTokenInfo,
                             isValid(EmptyTokenInfo, now).ret, mail.EMAIL_ENABLED)
       /\ store' = IF ok THEN Deleted(store) ELSE store
       /\ JobCalls(job', mail, checkin, sender)
  /\ UNCHANGED <<now, client, ti, call, poll, flow, sched, savers, web>>

\* `await sendTokenExpiredEmail(emailOptions)` is over; a rejection would be
\* logged by the try block around it
JobAlerted ==
  /\ job.pc = "alert"
  /\ mail.pc \in {"done", "threw"}
  /\ job' = [job EXCEPT !.pc = "done"]
  /\ UNCHANGED <<now, client, store, ti, call, poll, flow, checkin, sched, mail, savers, web>>

\* `await getCheckInInfo(...)` is over: its error is caught, else
\* submitCheckIn(tokenInfo.getToken(), userName.trim()) is called
JobInfo ==
  /\ job.pc = "info"
  /\ checkin.pc \in {"done", "threw"}
  /\ job' = IF checkin.pc = "threw" THEN Caught([job EXCEPT !.requests = @ + checkin.requests], checkin.err)
            ELSE [job EXCEPT !.pc = "submit", !.requests = @ + checkin.requests]
  /\ checkin' = IF checkin.pc = "threw" THEN checkin
                ELSE submitCheckIn(job.tokenInfo.token, Str(Trim(job.userName.s)), Undefined)
  /\ UNCHANGED <<now, client, store, ti, call, poll, flow, sched, mail, savers, web>>

\* `await submitCheckIn(...)` is over: its error is caught, else the result is
\* logged
JobSubmit ==
  /\ job.pc = "submit"
  /\ checkin.pc \in {"done", "threw"}
  /\ job' = IF checkin.pc = "threw" THEN Caught([job EXCEPT !.requests = @ + checkin.requests], checkin.err)
            ELSE [job EXCEPT !.pc = "done", !.requests = @ + checkin.requests]
  /\ UNCHANGED <<now, client, store, ti, call, poll, flow, checkin, sched, mail, savers, web>>

JobResting == job.pc \in {"idle", "done", "threw"}

-----------------------------------------------------------------------------
(* The scheduler (scheduler.ts, carried in src/unnamed/part_001): the module  *)
(* variable checkinJob and the CronJob objects of the cron library.  A        *)
(* CronJob is a positive number; start() makes it a timer, stop() ends that   *)

MaxJobs == 2

\* the scheduler as an operation enters it
Called(s, op) ==
  [s EXCEPT !.op = op, !.before = s.checkinJob, !.created = FALSE, !.threw = FALSE,
            !.status = NoStatus]

\* startScheduler(), as mutated: without the test of checkinJob
startScheduler_unguarded(s) ==
  [Called(s, "startScheduler") EXCEPT !.checkinJob = s.made + 1, !.made = s.made + 1,
                                      !.timers = s.timers \cup {s.made + 1},
                                      !.created = TRUE]

\* startScheduler(): `if (checkinJob) return`, else `new CronJob(...)` and
\* `checkinJob.start()`
startScheduler(s) ==
  IF s.checkinJob # 0 THEN Called(s, "startScheduler")
  ELSE [Called(s, "startScheduler") EXCEPT !.checkinJob = s.made + 1, !.made = s.made + 1,
                                           !.timers = s.timers \cup {s.made + 1},
                                           !.created = TRUE]

\* stopScheduler(), as mutated: the reference is cleared, the job is not stopped
stopScheduler_unstopped(s) ==
  IF s.checkinJob # 0 THEN [Called(s, "stopScheduler") EXCEPT !.checkinJob = 0]
  ELSE Called(s, "stopScheduler")

\* stopScheduler(): `checkinJob.stop(); checkinJob = null`
stopScheduler(s) ==
  IF s.checkinJob # 0
  THEN [Called(s, "stopScheduler") EXCEPT !.timers = s.timers \ {s.checkinJob}, !.checkinJob = 0]
  ELSE Called(s, "stopScheduler")

\* what `checkinJob.nextDate()?.toJSDate()` gives: the cron library computes the
\* next date of the expression '0 5 19 * * *' for any CronJob
NextDateOutcomes == {"date"}

\* getSchedulerStatus(), as mutated: a job whose nextDate() gives a date is
\* treated like one that gives none
getSchedulerStatus_drops(s, nextDate) ==
  IF s.checkinJob = 0 THEN Called(s, "getSchedulerStatus")
  ELSE [Called(s, "getSchedulerStatus") EXCEPT !.checkinJob = 0]

\* getSchedulerStatus(), as mutated: the next fire time is left out
getSchedulerStatus_noDate(s, nextDate) ==
  IF s.checkinJob = 0 THEN Called(s, "getSchedulerStatus")
  ELSE IF nextDate = "date"
  THEN [Called(s, "getSchedulerStatus") EXCEPT
          !.status = [isRunning |-> TRUE, checkinJobStatus |-> TRUE, nextCheckinDate |-> FALSE]]
  ELSE [Called(s, "getSchedulerStatus") EXCEPT !.checkinJob = 0]

\* getSchedulerStatus(): with a job whose nextDate() gives a date isRunning is
\* true; when it gives none, or throws, the reference is cleared
getSchedulerStatus(s, nextDate) ==
  IF s.checkinJob = 0 THEN Called(s, "getSchedulerStatus")
  ELSE IF nextDate = "date"
  THEN [Called(s, "getSchedulerStatus") EXCEPT
          !.status = [isRunning |-> TRUE, checkinJobStatus |-> TRUE, nextCheckinDate |-> TRUE]]
  ELSE [Called(s, "getSchedulerStatus") EXCEPT !.checkinJob = 0]

StartScheduler ==
  /\ sched.made < MaxJobs
  /\ sched' = startScheduler(sched)
  /\ UNCHANGED <<now, client, store, ti, call, poll, flow, checkin, job, mail, savers, web>>

StopScheduler ==
  /\ sched' = stopScheduler(sched)
  /\ UNCHANGED <<now, client, store, ti, call, poll, flow, checkin, job, mail, savers, web>>

GetSchedulerStatus ==
  /\ \E nextDate \in NextDateOutcomes : sched' = getSchedulerStatus(sched, nextDate)
  /\ UNCHANGED <<now, client, store, ti, call, poll, flow, checkin, job, mail, savers, web>>

\* the timer of a started CronJob calls performDailyCheckin
CronFire ==
  /\ JobResting
  /\ \E j \in sched.timers, userName \in UserNames : job' = performDailyCheckin("cron", userName)
  /\ UNCHANGED <<now, client, store, ti, call, poll, flow, checkin, sched, mail, savers, web>>

\* triggerManualCheckin(): `await performDailyCheckin()`
TriggerManualCheckin ==
  /\ JobResting
  /\ \E userName \in UserNames : job' = performDailyCheckin("manual", userName)
  /\ UNCHANGED <<now, client, store, ti, call, poll, flow, checkin, sched, mail, savers, web>>

\* the server starts with the entry a login left, with none, or with a value
\* written from outside; EMAIL_ENABLED is as the environment makes it
InitSched ==
  /\ now = 0
  /\ client = "null"
  /\ store \in InitEntries
  /\ ti = EmptyTokenInfo
  /\ call = NoCall
  /\ poll = NoPoll
  /\ flow = NoFlow
  /\ checkin = NoCheckin
  /\ sched = NoSched
  /\ job = NoJob
  /\ mail \in MailConfigs
  /\ savers = NoSavers
  /\ web = NoWeb

NextSched ==
  \/ StartScheduler
  \/ StopScheduler
  \/ GetSchedulerStatus
  \/ CronFire
  \/ TriggerManualCheckin
  \/ JobClient
  \/ JobGet
  \/ JobDel
  \/ JobAlerted
  \/ JobInfo
  \/ JobSubmit
  \/ CheckinResponse
  \/ MailSend
  \/ Tick

SpecSched == InitSched /\ [][NextSched]_vars

-----------------------------------------------------------------------------
(* Claims about the scheduler, checked under SpecSched *)

Running == sched.checkinJob # 0

\* an activation of performDailyCheckin begins on a timer
Fires == job.pc \in {"idle", "done"} /\ job' # job /\ job'.by = "cron"

StopStep == sched'.op = "stopScheduler" /\ sched' # sched

-----------------------------------------------------------------------------
(* Claims about the notifier, checked under SpecMail *)

\* C20: sendEmailWithQRCode, sendCheckinResult and sendTokenExpiredEmail never
\* raise to the caller, whatever their arguments and whatever the mail
\* transport does
C20_neverRaises == mail.pc # "threw"

-----------------------------------------------------------------------------
(* Claims about performDailyCheckin, checked under SpecSched *)

\* a step of the activation
JobStep == job' # job

\* the activation is over and the entry it read held no valid credential
FoundInvalid == job.pc = "done" /\ job.read /\ ~StoredValid(job.seen, job.at)

\* C17: when the job has run and the stored credential it read was absent or
\* invalid, it sent no request to the check-in API and, e-mail being enabled,
\* it called sendTokenExpiredEmail
C17_invalidAlerts ==
  FoundInvalid => job.requests = 0 /\ (mail.EMAIL_ENABLED => job.alerts = 1)

\* C18, as stated: no step of the job changes the login state, the poll state
\* or the credential store
C18_frame == [][JobStep => poll' = poll /\ flow' = flow /\ store' = store]_vars

\* C18: no step of the job requests a login session, polls or exchanges a
\* code, and the only change a step makes to the credential store is the
\* removal, by fromRedis(), of an entry that is not JSON
C18_onlyDeletes ==
  [][JobStep => /\ poll' = poll
                /\ flow' = flow
                /\ store' # store => /\ store' = NoEntry
                                     /\ ~JSONparse(store.json).ok
                                     /\ job'.dels = job.dels + 1]_vars

\* the job removed the entry that did not parse and went on to its end
C18_witness == job.pc = "done" /\ job.dels = 1 /\ store = NoEntry /\ job.seen.json = <<"{", "x">>

\* C19: performDailyCheckin never throws, and no step of it changes the
\* scheduler
C19_neverThrows == [](job.pc # "threw") /\ [][JobStep => sched' = sched]_vars

\* a cron-fired activation ended in its catch block on a failed request while
\* the scheduler is running
C19_witness ==
  /\ job.pc = "done"
  /\ job.by = "cron"
  /\ job.caught = "NetworkError"
  /\ job.requests = 2
  /\ Running

-----------------------------------------------------------------------------
(* Concurrent save() calls: every login (CLI, web session) saves its own
   TokenInfo under the one key, and the awaits of save() let them interleave *)

\* the TokenInfos the logins save
SaverInputs ==
  {NewTokenInfo(t, Num(e)) : t \in {Str(<<"t">>), Str(<<"a", "\"", "\\">>)}, e \in {1, MaxExpire}}

\* save() as mutated: the token is written into the entry that is there
Replaced_inPlace(e, t, clock) ==
  RedisSet(SaveJson([token |-> t.token, expire |-> IF e.present THEN e.src.expire ELSE t.expire]),
           DEFAULT_TTL, clock, "save", t)

\* save(): the one `client.set(key, JSON.stringify({token, expire}), {EX: ttl})`
Replaced(e, t, clock) == RedisSet(SaveJson(t), DEFAULT_TTL, clock, "save", t)

\* save() of login i: `await getClient()`, then the check of token and expire
SaverCall(i) ==
  /\ savers.run[i].pc # "set"
  /\ \E c \in GetClientOutcomes, t \in SaverInputs :
       /\ client' = c
       /\ savers' = [savers EXCEPT !.run[i] =
            [pc |-> IF c # "connected" \/ SaveRefuses(t) THEN "threw" ELSE "set", t |-> t]]
  /\ UNCHANGED <<now, store, ti, call, poll, flow, checkin, sched, job, mail, web>>

\* save() of login i: `await client.set(...)` is applied, or fails
SaverSet(i) ==
  /\ savers.run[i].pc = "set"
  /\ \E ok \in BOOLEAN :
       IF ~ok THEN /\ savers' = [savers EXCEPT !.run[i].pc = "threw"]
                   /\ store' = store
       ELSE /\ store' = Replaced(store, savers.run[i].t, now)
            /\ savers' = [savers EXCEPT !.run[i].pc = "done", !.last = savers.run[i].t,
                                        !.sets = IF @ < 2 THEN @ + 1 ELSE @]
  /\ UNCHANGED <<now, client, ti, call, poll, flow, checkin, sched, job, mail, web>>

NextSave ==
  \/ \E i \in 1..MaxSavers : SaverCall(i)
  \/ \E i \in 1..MaxSavers : SaverSet(i)
  \/ FromRedisCall
  \/ FromRedisGet

SpecSave == InitStore /\ [][NextSave]_vars

\* a load reads the entry and returns
Loads == call.op = "fromRedis" /\ call.pc = "get" /\ call'.pc = "done"

\* C21: the entry is always the whole document of the latest save() that
\* Redis applied, and a load returns the token and the expiry of that one save,
\* never the token of one and the expiry of another
C21_wholesale ==
  /\ [](store.present => store.json = SaveJson(savers.last))
  /\ [][Loads /\ store.present =>
          call'.out.token = savers.last.token /\ call'.out.expire = savers.last.expire]_vars

\* two logins saved different tokens and expiries one after the other, and the
\* load that followed returned what the second wrote
C21_witness ==
  /\ savers.sets = 2
  /\ savers.run[1].pc = "done" /\ savers.run[2].pc = "done"
  /\ savers.run[1].t.token # savers.run[2].t.token
  /\ savers.run[1].t.expire # savers.run[2].t.expire
  /\ call.op = "fromRedis" /\ call.pc = "done"
  /\ call.out = savers.last /\ call.seen.src = savers.last

-----------------------------------------------------------------------------
(* The web server: login sessions of POST /api/qrcode, their 5-minute
   timeout, their 2-second polling interval, the cleanup interval *)

MAX_POLLS_PER_SESSION == 150

\* the sessions created under the sessionId so far
Sessions(w, sessionId) == {k \in 1..w.made : w.of[k] = sessionId}

\* io.emit(sessionId, {type}); the messages are recorded as long as the
\* sessionId stands for one session
Emitted(w, sessionId, type) ==
  IF Cardinality(Sessions(w, sessionId)) > 1 THEN w
  ELSE [w EXCEPT !.events[sessionId] = @ \cup {type},
                 !.last = [sessionId |-> sessionId, type |-> type, n |-> 1 - @.n]]

\* the removal as mutated: the entry stays in pollingSessions
Removed_kept(w, sessionId, type) ==
  [Emitted(w, sessionId, type) EXCEPT !.sessionStats.activeSessions = @ - 1]

\* pollingSessions.delete(sessionId); sessionStats.activeSessions--;
\* io.emit(sessionId, {type})
Removed(w, sessionId, type) ==
  [Emitted(w, sessionId, type) EXCEPT !.pollingSessions[sessionId] = NoSession,
                                      !.sessionStats.activeSessions = @ - 1]

\* POST /api/qrcode after `await fetchUUID()` answered: pollingSessions.set
\* with a new setTimeout, the statistics, startPollingWxCode's setInterval
PostQrcode(sessionId) ==
  /\ web.made < MaxLogins
  /\ web' = [web EXCEPT
       !.made = @ + 1,
       !.of = Append(@, sessionId),
       !.pollingSessions[sessionId] = [uuid |-> web.made + 1, timeout |-> web.made + 1, pollCount |-> 0],
       !.timeouts = @ \cup {web.made + 1},
       !.intervals = @ \cup {web.made + 1},
       !.sessionStats = [totalSessions |-> @.totalSessions + 1,
                         activeSessions |-> @.activeSessions + 1],
       !.events[sessionId] = IF Sessions(web, sessionId) # {} THEN {} ELSE @,
       !.last = IF Sessions(web, sessionId) # {} THEN NoWeb.last ELSE @]
  /\ UNCHANGED <<now, client, store, ti, call, poll, flow, checkin, sched, job, mail, savers>>

\* SESSION_CONFIG.TIMEOUT passes for the k-th session, the older ones first
Age(k) ==
  /\ k \in 1..web.made /\ k \notin web.aged /\ \A j \in 1..(k - 1) : j \in web.aged
  /\ web' = [web EXCEPT !.aged = @ \cup {k}]
  /\ UNCHANGED <<now, client, store, ti, call, poll, flow, checkin, sched, job, mail, savers>>

\* the setTimeout callback of the k-th session
TimeoutFires(k) ==
  /\ k \in web.timeouts /\ k \in web.aged
  /\ web' = [Removed(web, web.of[k], "expired") EXCEPT !.timeouts = @ \ {k}]
  /\ UNCHANGED <<now, client, store, ti, call, poll, flow, checkin, sched, job, mail, savers>>

\* callback c goes on to its next await, or ends with pc "none"
Moved(w, c, pc) ==
  [w EXCEPT !.calls = IF pc = "none" THEN @ (-) SetToBag({c})
                      ELSE (@ (-) SetToBag({c})) (+) SetToBag({[c EXCEPT !.pc = pc]})]

\* the setInterval callback of the k-th session, up to `await pollWxCode(uuid)`
IntervalTick(k) ==
  /\ k \in web.intervals
  /\ LET session == web.pollingSessions[web.of[k]]
     IN  IF session.uuid = 0 THEN web' = [web EXCEPT !.intervals = @ \ {k}]
         ELSE IF session.uuid \in web.aged \/ session.pollCount + 1 > MAX_POLLS_PER_SESSION
         THEN web' = [Removed(web, web.of[k], "expired") EXCEPT !.intervals = @ \ {k}]
         ELSE /\ BagCardinality(web.calls) < MaxCalls
              /\ web' = [web EXCEPT !.pollingSessions[web.of[k]].pollCount = @ + 1,
                                    !.calls = @ (+) SetToBag({[k |-> k, pc |-> "poll"]})]
  /\ UNCHANGED <<now, client, store, ti, call, poll, flow, checkin, sched, job, mail, savers>>

\* `await pollWxCode(uuid)` answers callback c: with a code the interval is
\* cleared, the entry under the sessionId deleted and 'scanned' pushed
PollAnswers_web ==
  /\ \E c \in BagToSet(web.calls), wxCode \in BOOLEAN :
       /\ c.pc = "poll"
       /\ web' = IF wxCode
                 THEN [Moved(Removed(web, web.of[c.k], "scanned"), c, "exchange") EXCEPT
                         !.intervals = @ \ {c.k}]
                 ELSE Moved(web, c, "none")
  /\ UNCHANGED <<now, client, store, ti, call, poll, flow, checkin, sched, job, mail, savers>>

\* `await TokenInfo.fetchTokenByWxCode(wxCode)` and `await tokenInfo.save()`
\* answer callback c: 'success' and triggerCheckin after the save, 'error'
\* from the catch block
TokenAnswers ==
  /\ \E c \in BagToSet(web.calls), ok \in BOOLEAN :
       /\ c.pc \in {"exchange", "save"}
       /\ web' = IF ~ok THEN Moved(Emitted(web, web.of[c.k], "error"), c, "none")
                 ELSE IF c.pc = "exchange" THEN Moved(web, c, "save")
                 ELSE Moved(Emitted(web, web.of[c.k], "success"), c, "checkin")
  /\ UNCHANGED <<now, client, store, ti, call, poll, flow, checkin, sched, job, mail, savers>>

\* triggerCheckin(sessionId) ends: 'checkin_complete', or 'checkin_error'
\* from its catch block
CheckinEnds ==
  /\ \E c \in BagToSet(web.calls), type \in {"checkin_complete", "checkin_error"} :
       /\ c.pc = "checkin"
       /\ web' = Moved(Emitted(web, web.of[c.k], type), c, "none")
  /\ UNCHANGED <<now, client, store, ti, call, poll, flow, checkin, sched, job, mail, savers>>

\* one entry of the cleanup interval's loop: clearTimeout, delete, count down
Cleaned(w, sessionId) ==
  IF w.pollingSessions[sessionId].uuid \in w.aged
  THEN [w EXCEPT !.timeouts = @ \ {w.pollingSessions[sessionId].timeout},
                 !.pollingSessions[sessionId] = NoSession,
                 !.sessionStats.activeSessions = @ - 1]
  ELSE w

\* the cleanup interval's callback
Cleanup ==
  /\ \E s \in SessionIds : web.pollingSessions[s].uuid \in web.aged
  /\ web' = Cleaned(web, "a")
  /\ UNCHANGED <<now, client, store, ti, call, poll, flow, checkin, sched, job, mail, savers>>

NextWeb ==
  \/ \E s \in SessionIds : PostQrcode(s)
  \/ \E k \in 1..MaxLogins : Age(k)
  \/ \E k \in 1..MaxLogins : TimeoutFires(k)
  \/ \E k \in 1..MaxLogins : IntervalTick(k)
  \/ PollAnswers_web
  \/ TokenAnswers
  \/ CheckinEnds
  \/ Cleanup

SpecWeb == InitStore /\ [][NextWeb]_vars

\* fairness of the timers only: Node fires a timer that is due and time
\* passes, while nothing bounds the time an HTTP request takes to answer
SpecWebFair ==
  /\ SpecWeb
  /\ \A k \in 1..MaxLogins :
       WF_vars(Age(k)) /\ WF_vars(TimeoutFires(k)) /\ WF_vars(IntervalTick(k))

\* the k-th session is no longer in pollingSessions and its interval is cleared
Destroyed(k) ==
  k <= web.made /\ web.pollingSessions[web.of[k]].uuid # k /\ k \notin web.intervals

C23_oneUuid ==
  \A c \in BagToSet(web.calls), d \in BagToSet(web.calls) :
    c.pc = "poll" /\ d.pc = "poll" /\ web.of[c.k] = web.of[d.k] => c.k = d.k

\* C27: of the callbacks of one session at most one is past pollWxCode, that
\* is exchanging the code, saving the token or in triggerCheckin
C27_once ==
  \A c \in BagToSet(web.calls) :
    c.pc # "poll" =>
      /\ CopiesIn(c, web.calls) = 1
      /\ \A d \in BagToSet(web.calls) : d.k = c.k /\ d.pc # "poll" => d = c

\* C28: sessionStats.activeSessions is the number of entries of
\* pollingSessions, and not negative
C28_activeSessions ==
  /\ web.sessionStats.activeSessions =
       Cardinality({s \in SessionIds : web.pollingSessions[s].uuid # 0})
  /\ web.sessionStats.activeSessions >= 0

\* this step pushes a message of one of the types
Emits(types) == web'.last # web.last /\ web'.last.type \in types

\* the types pushed so far to the one session created
Pushed == IF web.made = 1 THEN web.events[web.of[1]] ELSE {}

\* C29: as long as one session was created under the sessionId, 'scanned'
\* comes before any other message of the login, 'success' after 'scanned' and
\* after the save answered, a check-in message after 'success', and none after
\* an 'error'
C29_order ==
  [][web'.made = 1 =>
       /\ Emits({"scanned"}) => Pushed \cap {"success", "error", "checkin_complete", "checkin_error"} = {}
       /\ Emits({"success"}) => /\ "scanned" \in Pushed
                                /\ Pushed \cap {"checkin_complete", "checkin_error"} = {}
                                /\ \E c \in BagToSet(web.calls) : c.pc = "save"
       /\ Emits({"checkin_complete", "checkin_error"}) =>
            "success" \in Pushed /\ "error" \notin Pushed]_vars

\* C30: as long as one session was created under the sessionId, once
\* 'success', 'error' or 'expired' was pushed, or the session was removed, no
\* step pushes 'expired', 'scanned' or 'success' (a token is saved just
\* before each 'success')
C30_silent ==
  [][/\ web'.made = 1
     /\ \/ Pushed \cap {"success", "error", "expired"} # {}
        \/ web.made = 1 /\ web.pollingSessions[web.of[1]].uuid = 0
     => ~Emits({"expired", "scanned", "success"})]_vars

-----------------------------------------------------------------------------
(* The check-in routes: POST /api/trigger-checkin awaits
   triggerManualCheckin(), POST /api/checkin runs the same sequence itself;
   Express starts a handler for every request that arrives *)

\* the handler of a new request runs up to `await TokenInfo.fromRedis()`;
\* nothing in it looks at the requests already being handled
PostCheckin(route) ==
  /\ \E i \in 1..MaxRuns :
       /\ web.runs[route][i] = "none"
       /\ \A j \in 1..(i - 1) : web.runs[route][j] # "none"
       /\ web' = [web EXCEPT !.runs[route][i] = "fromRedis"]
  /\ UNCHANGED <<now, client, store, ti, call, poll, flow, checkin, sched, job, mail, savers>>

\* an await of run i answers: the credential check, getCheckInInfo,
\* submitCheckIn; the handler responds after the last, or from an early return
\* or its catch block
RunAnswers(route, i) ==
  /\ web.runs[route][i] # "none"
  /\ \E ok \in BOOLEAN :
       web' = [web EXCEPT !.runs[route][i] =
                 CASE ~ok -> "none"
                   [] @ = "fromRedis" -> "getCheckInInfo"
                   [] @ = "getCheckInInfo" -> "submitCheckIn"
                   [] OTHER -> "none"]
  /\ UNCHANGED <<now, client, store, ti, call, poll, flow, checkin, sched, job, mail, savers>>

NextRuns ==
  \/ \E r \in Routes : PostCheckin(r)
  \/ \E r \in Routes, i \in 1..MaxRuns : RunAnswers(r, i)

SpecRuns == InitStore /\ [][NextRuns]_vars

\* C24: of the runs of the credential-check and check-in sequence started by
\* one route at most one is in progress
C24_noOverlap ==
  \A r \in Routes : Cardinality({i \in 1..MaxRuns : web.runs[r][i] # "none"}) <= 1

\* the scheduler with weak fairness on every step of the job but the answer
\* of the check-in API: request() hands the call to fetch() with no timeout and
\* no abort signal, so nothing makes a call end
SpecSchedFair ==
  /\ SpecSched
  /\ WF_vars(JobClient) /\ WF_vars(JobGet) /\ WF_vars(JobDel) /\ WF_vars(JobAlerted)
  /\ WF_vars(JobInfo) /\ WF_vars(JobSubmit) /\ WF_vars(MailSend)

\* C25: every call that request() sent is answered or fails, and every run of
\* performDailyCheckin that started comes to its end
C25_finishes ==
  /\ (checkin.pc = "await") ~> (checkin.pc # "await")
  /\ (~JobResting) ~> JobResting

\* C26: the status requests sent for one session, which are at least those of
\* the one pollWxCode(uuid) call that a tick of its timer starts, never exceed
\* MAX_POLLS_PER_SESSION
C26_requestCap == poll.requests <= MAX_POLLS_PER_SESSION

-----------------------------------------------------------------------------
(* The server paths that check in: POST /api/checkin and triggerCheckin()    *)
(* (server.ts, carried in src/unnamed/part_000), next to                     *)
(* performDailyCheckin().  A run keeps its credential in a local constant,   *)
(* so runs are followed one at a time.                                       *)

Paths == {"/api/checkin", "triggerCheckin"}

\* how a run ends: the response of the route, or the message triggerCheckin
\* pushes from its try block or its catch block
Answered(by, outcome) ==
  IF by = "/api/checkin"
  THEN CASE outcome = "nouser" -> "400"
         [] outcome = "invalid" -> "401 needReauth"
         [] outcome = "error" -> "500"
         [] OTHER -> "200"
  ELSE IF outcome = "ok" THEN "checkin_complete" ELSE "checkin_error"

Ended(r, outcome) == [r EXCEPT !.pc = "done", !.res = Answered(r.by, outcome)]

\* the test of the loaded credential, as mutated: left out
RouteTested_untested(r, t, clock) ==
  [r EXCEPT !.tokenInfo = t, !.read = TRUE, !.at = clock, !.pc = "info"]

\* after fromRedis() returned t: `if (!tokenInfo.isValid())`, then
\* getCheckInInfo(tokenInfo.getToken())
RouteTested(r, t, clock) ==
  IF isValid(t, clock).threw
  THEN Ended([r EXCEPT !.tokenInfo = t, !.read = TRUE, !.at = clock], "error")
  ELSE IF ~isValid(t, clock).ret
  THEN Ended([r EXCEPT !.tokenInfo = t, !.read = TRUE, !.at = clock], "invalid")
  ELSE [r EXCEPT !.tokenInfo = t, !.read = TRUE, !.at = clock, !.pc = "info"]

RunResting == web.run.pc \in {"idle", "done"}

\* the handler is entered: USER_NAME is read, then fromRedis() awaits
\* getClient()
RouteCall ==
  /\ RunResting /\ JobResting
  /\ \E by \in Paths, userName \in UserNames :
       web' = [web EXCEPT !.run =
                 IF ~Truthy(userName)
                 THEN Ended([NoJob EXCEPT !.by = by, !.userName = userName], "nouser")
                 ELSE [NoJob EXCEPT !.by = by, !.userName = userName, !.pc = "client"]]
  /\ UNCHANGED <<now, client, store, ti, call, poll, flow, checkin, sched, job, mail, savers>>

\* fromRedis(): `await getClient()`
RouteClient ==
  /\ web.run.pc = "client"
  /\ \E c \in GetClientOutcomes :
       /\ client' = c
       /\ web' = [web EXCEPT !.run = IF c = "connected" THEN [@ EXCEPT !.pc = "get"]
                                     ELSE Ended(@, "error")]
  /\ UNCHANGED <<now, store, ti, call, poll, flow, checkin, sched, job, mail, savers>>

\* the call the run makes as it enters pc "info"
RouteCalls(r, c) == IF r.pc = "info" THEN getCheckInInfo(r.tokenInfo.token) ELSE c

\* fromRedis(): `await client.get(key)`, the parse, and the test of the result
RouteGet ==
  /\ web.run.pc = "get"
  /\ \E ok \in BOOLEAN, r \in {FromRedisRead(RedisGet(store, now), now)} :
       web' = [web EXCEPT !.run =
                 IF ~ok \/ r.k = "throw" THEN Ended(@, "error")
                 ELSE IF r.k = "del" THEN [@ EXCEPT !.pc = "del"]
                 ELSE RouteTested([@ EXCEPT !.seen = Visible(store, now)], r.t, now)]
  /\ checkin' = RouteCalls(web'.run, checkin)
  /\ UNCHANGED <<now, client, store, ti, call, poll, flow, sched, job, mail, savers>>

\* fromRedis(): `await client.del(key)` of the entry that did not parse, then
\* the test of the empty credential
RouteDel ==
  /\ web.run.pc = "del"
  /\ \E ok \in BOOLEAN :
       /\ web' = [web EXCEPT !.run = IF ~ok THEN Ended(@, "error")
                                     ELSE RouteTested([@ EXCEPT !.dels = @ + 1], EmptyTokenInfo, now)]
       /\ store' = IF ok THEN Deleted(store) ELSE store
  /\ checkin' = RouteCalls(web'.run, checkin)
  /\ UNCHANGED <<now, client, ti, call, poll, flow, sched, job, mail, savers>>

\* `await getCheckInInfo(...)` is over: its error goes to the catch block, else
\* submitCheckIn(tokenInfo.getToken(), userName.trim()) is called
RouteInfo ==
  /\ web.run.pc = "info"
  /\ checkin.pc \in {"done", "threw"}
  /\ web' = [web EXCEPT !.run =
               IF checkin.pc = "threw" THEN Ended([@ EXCEPT !.requests = @ + checkin.requests], "error")
               ELSE [@ EXCEPT !.pc = "submit", !.requests = @ + checkin.requests]]
  /\ checkin' = IF checkin.pc = "threw" THEN checkin
                ELSE submitCheckIn(web.run.tokenInfo.token, Str(Trim(web.run.userName.s)), Undefined)
  /\ UNCHANGED <<now, client, store, ti, call, poll, flow, sched, job, mail, savers>>

\* `await submitCheckIn(...)` is over: its error goes to the catch block, else
\* the result is answered
RouteSubmit ==
  /\ web.run.pc = "submit"
  /\ checkin.pc \in {"done", "threw"}
  /\ web' = [web EXCEPT !.run =
               Ended([@ EXCEPT !.requests = @ + checkin.requests],
                     IF checkin.pc = "threw" THEN "error" ELSE "ok")]
  /\ UNCHANGED <<now, client, store, ti, call, poll, flow, checkin, sched, job, mail, savers>>

NextRoutes ==
  \/ RouteCall
  \/ RouteClient
  \/ RouteGet
  \/ RouteDel
  \/ RouteInfo
  \/ RouteSubmit
  \/ RunResting /\ TriggerManualCheckin
  \/ JobClient
  \/ JobGet
  \/ JobDel
  \/ JobAlerted
  \/ JobInfo
  \/ JobSubmit
  \/ CheckinResponse
  \/ MailSend
  \/ Tick

SpecRoutes == InitSched /\ [][NextRoutes]_vars

-----------------------------------------------------------------------------
(* get_ensureLoggedIn(): what the QR path returns is what the store holds *)

\* the step in which get_ensureLoggedIn() returns a credential of the QR flow
ReturnsFresh == flow.pc # "returned" /\ flow'.pc = "returned" /\ flow'.path # "cached"

\* C31: when get_ensureLoggedIn() returns a credential obtained through the QR
\* flow, that credential has been written by its save(): the entry is the one
\* this save() wrote, and fromRedis() right after the return loads the same
\* token and the same expiry; a step in which the write fails does not return.
C31_writtenFirst ==
  [][ReturnsFresh =>
       /\ flow'.writes = flow.writes + 1
       /\ store'.by = "save" /\ store'.json = SaveJson(flow'.ret)
       /\ FromRedisRead(RedisGet(store', now'), now') = [k |-> "return", t |-> flow'.ret]]_vars

\* a QR login has returned after an earlier attempt of the same call failed,
\* and the entry read back is the credential returned
C31_witness ==
  /\ flow.pc = "returned" /\ flow.path = "qr" /\ flow.attempts = 2
  /\ flow.retAt = now
  /\ FromRedisRead(RedisGet(store, now), now).t = flow.ret

-----------------------------------------------------------------------------
(* The server and scheduler paths: the credential is tested before any       *)
(* request to the check-in API                                               *)

\* the run has called the check-in API
Requests(r) == r.pc \in {"info", "submit"} \/ r.requests > 0

\* the credential the run loaded passed isValid() when the run tested it
Passed(r) == r.read /\ isValid(r.tokenInfo, r.at) = [threw |-> FALSE, ret |-> TRUE]

\* C32: on POST /api/checkin, triggerCheckin() and performDailyCheckin() a
\* request goes to the check-in API only in a run whose credential, loaded
\* from the store in that run, passed isValid(); a POST /api/checkin run whose
\* loaded credential does not pass answers 401 with needReauth, has sent no
\* request, and no step of these runs touches the login sessions.
C32_validFirst ==
  /\ [](Requests(job) => Passed(job))
  /\ [](Requests(web.run) => Passed(web.run))
  /\ [][checkin'.pc = "await" /\ checkin' # checkin
        => \/ job'.pc \in {"info", "submit"} /\ Passed(job')
           \/ web'.run.pc \in {"info", "submit"} /\ Passed(web'.run)]_vars
  /\ [](/\ web.run.by = "/api/checkin" /\ web.run.pc = "done"
        /\ web.run.read /\ ~Passed(web.run)
        => web.run.res = "401 needReauth" /\ web.run.requests = 0)
  /\ [][web'.pollingSessions = web.pollingSessions /\ web'.sessionStats = web.sessionStats
        /\ web'.timeouts = web.timeouts /\ web'.intervals = web.intervals]_vars

\* POST /api/checkin has answered 401 for an expired credential that a
\* save() wrote, after a run of performDailyCheckin() has sent its requests
C32_witness ==
  /\ web.run.by = "/api/checkin" /\ web.run.res = "401 needReauth"
  /\ web.run.seen.by = "save" /\ web.run.tokenInfo.expire = Num(1) /\ web.run.at >= 1
  /\ job.requests = 2 /\ Passed(job)

-----------------------------------------------------------------------------
(* get_ensureLoggedIn(), lines 199 to 225 await by await: the QR image, the  *)
(* terminal display and the email, each in its own try block, then           *)
(* pollWxCode(uuid).  flow.qrBuffer is the local qrBuffer, flow.printed says *)
(* whether printAsciiQRCode() resolved.                                      *)

\* where the flow goes after one of the three calls, as mutated: a rejected
\* email is handled like a failed step of the loop
ShowNext_mailAborts(step, ok) ==
  IF step = "mail" /\ ~ok THEN "backoff"
  ELSE CASE step = "qr" -> "print" [] step = "print" -> "mail" [] OTHER -> "poll"

\* where the flow goes after one of the three calls resolved (ok) or rejected:
\* every catch block falls through to the next statement
ShowNext(step, ok) ==
  CASE step = "qr" -> "print" [] step = "print" -> "mail" [] OTHER -> "poll"

\* the identifiers fetchUUID() returns
Uuids == {Str(FetchUuidOutcomes[a].uuid) : a \in {b \in UuidAnswers : ~FetchUuidOutcomes[b].threw}}

\* `qrBuffer = await fetchQRCodeBuffer(uuid)`, Buffer.alloc(0) in its catch
\* block, then printAsciiQRCode(uuid) is called
ShowFetch ==
  /\ flow.pc = "qr"
  /\ \E fetched \in BOOLEAN :
       flow' = [flow EXCEPT !.pc = ShowNext("qr", fetched),
                            !.qrBuffer = IF fetched THEN Buffer(1) ELSE Buffer(0)]
  /\ UNCHANGED <<now, client, store, ti, call, poll, checkin, sched, job, mail, savers, web>>

\* `await printAsciiQRCode(uuid)` is over, then sendEmailWithQRCode(uuid,
\* qrBuffer) is called
ShowPrint ==
  /\ flow.pc = "print"
  /\ \E printed \in BOOLEAN, uuid \in Uuids, sender \in SenderOutcomes :
       /\ flow' = [flow EXCEPT !.pc = ShowNext("print", printed), !.printed = printed]
       /\ mail' = IF flow'.pc = "mail" THEN sendEmailWithQRCode(mail, uuid, flow.qrBuffer, sender)
                  ELSE mail
  /\ UNCHANGED <<now, client, store, ti, call, poll, checkin, sched, job, savers, web>>

\* `await sendEmailWithQRCode(uuid, qrBuffer)` is over, then pollWxCode(uuid)
\* is called and runs up to its first await
ShowMailed ==
  /\ flow.pc = "mail"
  /\ mail.pc \in {"done", "threw"}
  /\ flow' = [flow EXCEPT !.pc = ShowNext("mail", mail.pc = "done"),
                          !.failed = IF ShowNext("mail", mail.pc = "done") = "poll" THEN @ ELSE "mail"]
  /\ poll' = IF flow'.pc = "poll" THEN PollLoop(NoPoll) ELSE poll
  /\ UNCHANGED <<now, client, store, ti, call, checkin, sched, job, mail, savers, web>>

NextShow ==
  \/ EnsureCall
  \/ EnsureGet
  \/ EnsureDel
  \/ FetchUUID
  \/ ShowFetch
  \/ ShowPrint
  \/ ShowMailed
  \/ MailWrite
  \/ MailSend
  \/ MailUnlink
  \/ PollResponse
  \/ PollTimer
  \/ EnsurePolled
  \/ Exchange
  \/ EnsureSave
  \/ Backoff

SpecShow == InitSched /\ [][NextShow]_vars

-----------------------------------------------------------------------------
(* POST /api/qrcode when fetchUUID() throws: the catch block of the handler  *)

\* the handler, as mutated: the statistics are updated before fetchUUID() is
\* awaited
PostQrcodeFails_counted(sessionId) ==
  /\ \E a \in UuidAnswers : FetchUuidOutcomes[a].threw
  /\ web' = [web EXCEPT !.refused = TRUE, !.sessionStats.totalSessions = @ + 1]
  /\ UNCHANGED <<now, client, store, ti, call, poll, flow, checkin, sched, job, mail, savers>>

\* `await fetchUUID()` throws: nothing stands before it that changes the
\* server's state, and the catch block answers 500
PostQrcodeFails(sessionId) ==
  /\ \E a \in UuidAnswers : FetchUuidOutcomes[a].threw
  /\ web' = [web EXCEPT !.refused = TRUE]
  /\ UNCHANGED <<now, client, store, ti, call, poll, flow, checkin, sched, job, mail, savers>>

\* the requests, the timers and the session clean-up; the poll requests of the
\* interval callbacks stay unanswered here
NextQr ==
  \/ \E s \in SessionIds : PostQrcode(s)
  \/ \E s \in SessionIds : PostQrcodeFails(s)
  \/ \E k \in 1..MaxLogins : Age(k)
  \/ \E k \in 1..MaxLogins : TimeoutFires(k)
  \/ \E k \in 1..MaxLogins : IntervalTick(k)
  \/ Cleanup

SpecQr == InitStore /\ [][NextQr]_vars

-----------------------------------------------------------------------------
(* The command-line entry point main() (src/main.ts): job is the run, with   *)
(* by = "main"; res is the exit code.  get_ensureLoggedIn() is the flow, the *)
(* check-in calls and the notifier are the ones modelled above.              *)

\* `process.exit(code)`, caught being the error the catch block logged
Exit(j, code, caught) == [j EXCEPT !.pc = "exited", !.res = code, !.caught = caught]

\* main() up to its first await, as mutated: USER_NAME is not checked
MainEntered_unchecked(userName) == [NoJob EXCEPT !.by = "main", !.userName = userName, !.pc = "login"]

\* main() up to its first await: `if (!USER_NAME || USER_NAME.trim().length
\* === 0) throw new ValidationError(...)`, else get_ensureLoggedIn() is called
MainEntered(userName) ==
  IF ~Truthy(userName) \/ Len(Trim(userName.s)) = 0
  THEN Exit([NoJob EXCEPT !.by = "main", !.userName = userName], "exit 1", "ValidationError")
  ELSE [NoJob EXCEPT !.by = "main", !.userName = userName, !.pc = "login"]

MainCall ==
  /\ job.pc = "idle"
  /\ \E userName \in UserNames : job' = MainEntered(userName)
  /\ UNCHANGED <<now, client, store, ti, call, poll, flow, checkin, sched, mail, savers, web>>

\* `await TokenInfo.get_ensureLoggedIn()` is over: its error goes to the catch
\* block, as do a throw of the log line and of getToken(); else
\* getCheckInInfo(tokenInfo.getToken()) is called
MainLoggedIn ==
  /\ job.pc = "login" /\ flow.pc \in {"returned", "threw"}
  /\ job' = IF flow.pc = "threw" THEN Exit(job, "exit 1", flow.err)
            ELSE IF IsoThrows(flow.ret.expire) THEN Exit(job, "exit 1", "RangeError")
            ELSE IF ~Truthy(flow.ret.token) THEN Exit(job, "exit 1", "AuthenticationError")
            ELSE [job EXCEPT !.pc = "info", !.tokenInfo = flow.ret]
  /\ checkin' = IF job'.pc = "info" THEN getCheckInInfo(flow.ret.token) ELSE checkin
  /\ UNCHANGED <<now, client, store, ti, call, poll, flow, sched, mail, savers, web>>

\* `await getCheckInInfo(...)` is over: its error goes to the catch block, else
\* submitCheckIn(tokenInfo.getToken(), trimmedUserName) is called
MainInfo ==
  /\ job.by = "main" /\ job.pc = "info"
  /\ checkin.pc \in {"done", "threw"}
  /\ job' = IF checkin.pc = "threw" THEN Exit([job EXCEPT !.requests = @ + checkin.requests], "exit 1", checkin.err)
            ELSE [job EXCEPT !.pc = "submit", !.requests = @ + checkin.requests]
  /\ checkin' = IF checkin.pc = "threw" THEN checkin
                ELSE submitCheckIn(job.tokenInfo.token, Str(Trim(job.userName.s)), Undefined)
  /\ UNCHANGED <<now, client, store, ti, call, poll, flow, sched, mail, savers, web>>

\* `await submitCheckIn(...)` is over: its error goes to the catch block, else
\* sendCheckinResult(checkInResult) is called
MainSubmit ==
  /\ job.by = "main" /\ job.pc = "submit"
  /\ checkin.pc \in {"done", "threw"}
  /\ \E sender \in SenderOutcomes :
       /\ job' = IF checkin.pc = "threw"
                 THEN Exit([job EXCEPT !.requests = @ + checkin.requests], "exit 1", checkin.err)
                 ELSE [job EXCEPT !.pc = "notify", !.requests = @ + checkin.requests]
       /\ mail' = IF checkin.pc = "threw" THEN mail ELSE sendCheckinResult(mail, checkin.ret, sender)
  /\ UNCHANGED <<now, client, store, ti, call, poll, flow, checkin, sched, savers, web>>

\* `await sendCheckinResult(checkInResult)` is over, then `process.exit(0)`;
\* an error of the notifier would go to the catch block
MainNotified ==
  /\ job.pc = "notify"
  /\ mail.pc \in {"done", "threw"}
  /\ job' = IF mail.pc = "threw" THEN Exit(job, "exit 1", mail.err) ELSE Exit(job, "exit 0", "")
  /\ UNCHANGED <<now, client, store, ti, call, poll, flow, checkin, sched, mail, savers, web>>

NextMain ==
  \/ MainCall
  \/ job.pc = "login" /\ EnsureCall
  \/ EnsureGet
  \/ EnsureDel
  \/ FetchUUID
  \/ ShowQr
  \/ PollResponse
  \/ PollTimer
  \/ EnsurePolled
  \/ Exchange
  \/ EnsureSave
  \/ Backoff
  \/ MainLoggedIn
  \/ MainInfo
  \/ MainSubmit
  \/ MainNotified
  \/ CheckinResponse
  \/ MailSend

SpecMain == InitSched /\ [][NextMain]_vars

-----------------------------------------------------------------------------
(* getClient() call by call: the module variable clientPromise, the clients  *)
(* created, and the first calls of fromRedis() and save() that await the     *)
(* connection at the same time.  client is the outcome of connect().         *)

\* getClient(), as mutated: without the test of clientPromise
getClient_untested(s) == [s EXCEPT !.made = @ + 1, !.promise = s.made + 1]

\* getClient(): `if (!clientPromise) clientPromise = createClient(...).connect()`
getClient(s) == IF s.promise = 0 THEN [s EXCEPT !.made = @ + 1, !.promise = s.made + 1] ELSE s

\* caller i enters fromRedis() or save(): `const client = await getClient()`
GetClient(i) ==
  /\ savers.waits[i].op = "none"
  /\ \E op \in {"fromRedis", "save"} :
       savers' = [getClient(savers) EXCEPT !.waits[i] = [op |-> op, p |-> getClient(savers).promise]]
  /\ UNCHANGED <<now, client, store, ti, call, poll, flow, checkin, sched, job, mail, web>>

\* connect() of the client settles
Connect ==
  /\ savers.promise # 0 /\ client = "null"
  /\ client' \in {"connected", "rejected"}
  /\ UNCHANGED <<now, store, ti, call, poll, flow, checkin, sched, job, mail, savers, web>>

\* the await of caller i ends with the outcome of the promise it holds: a
\* rejection goes to the catch block of fromRedis() or save(), else save()
\* goes on to its SET and fromRedis() to its GET
Resume(i) ==
  /\ savers.waits[i].op # "none" /\ savers.run[i].pc = "idle"
  /\ client # "null"
  /\ \E t \in SaverInputs :
       savers' = [savers EXCEPT !.run[i] =
                    [pc |-> IF client = "rejected" THEN "threw"
                            ELSE IF savers.waits[i].op = "save" THEN "set" ELSE "get",
                     t |-> IF savers.waits[i].op = "save" THEN t ELSE EmptyTokenInfo]]
  /\ UNCHANGED <<now, client, store, ti, call, poll, flow, checkin, sched, job, mail, web>>

NextClient ==
  \/ \E i \in 1..MaxSavers : GetClient(i)
  \/ Connect
  \/ \E i \in 1..MaxSavers : Resume(i)
  \/ \E i \in 1..MaxSavers : SaverSet(i)

SpecClient == InitStore /\ [][NextClient]_vars

-----------------------------------------------------------------------------
(* The QR display and the notifier inside get_ensureLoggedIn() *)

Showing == flow.pc \in {"qr", "print", "mail"}

\* C33: inside get_ensureLoggedIn() a failure of fetching the QR image, of
\* printing it or of emailing it does not abort the attempt: each of the three
\* calls is followed by the next, the last by the start of pollWxCode() for
\* the session just obtained, with no backoff and no further session request.
C33_displayNeverAborts ==
  /\ [][Showing /\ flow' # flow =>
          /\ flow'.pc = ShowNext(flow.pc, TRUE)
          /\ flow'.sessions = flow.sessions /\ flow'.attempts = flow.attempts
          /\ flow'.failed = "" /\ flow'.err = ""
          /\ flow'.pc = "poll" => poll'.pc = "await" /\ poll'.polls = 1 /\ poll'.requests = 1]_vars
  /\ [](Showing => mail.pc # "idle" \/ flow.pc # "mail")

\* polling of the first session has started although the image could not be
\* fetched, the display failed and sendEmailWithQRCode() raised an error
C33_witness ==
  /\ flow.pc = "poll" /\ flow.sessions = 1 /\ poll.pc = "await"
  /\ flow.qrBuffer = Buffer(0) /\ ~flow.printed
  /\ mail.op = "sendEmailWithQRCode" /\ mail.pc = "threw"

-----------------------------------------------------------------------------
(* The scheduler's reference and the started cron jobs, under SpecSched *)

\* getSchedulerStatus() has returned
StatusStep == sched'.op = "getSchedulerStatus" /\ sched' # sched

-----------------------------------------------------------------------------
(* save() and incomplete credentials, under SpecStore *)

\* the document of the entry holds a token and an expiry that are truthy
Complete(json) ==
  /\ JSONparse(json).ok
  /\ Truthy(OptProp(JSONparse(json).v, TOKEN))
  /\ Truthy(OptProp(JSONparse(json).v, EXPIRE))

\* C35: save() of a credential whose token or expiry is null, empty or zero
\* throws and sends no SET, leaving the entry as it was; hence every document
\* a save() wrote holds a non-empty token and a non-zero expiry.
C35_refusesIncomplete ==
  /\ [](call.op = "save" /\ SaveRefuses(call.arg) => call.pc = "threw" /\ call.sets = 0)
  /\ [][(/\ call'.op = "save" /\ call' # call
           /\ (~Truthy(call'.arg.token) \/ ~Truthy(call'.arg.expire)))
          => store' = store]_vars
  /\ [](store.by = "save" => Complete(store.json))

\* save() of a credential with a token and the expiry 0 was refused while the
\* entry of an earlier save() was in the store
C35_witness ==
  /\ call.op = "save" /\ call.pc = "threw" /\ call.err = "INVALID_TOKEN_SAVE"
  /\ call.arg = NewTokenInfo(Str(<<"t">>), Num(0))
  /\ store.by = "save" /\ Complete(store.json)

-----------------------------------------------------------------------------
(* get_ensureLoggedIn() when its first read of the store fails, under Spec *)

\* get_ensureLoggedIn() is in fromRedis(), at one of its awaits
Reading == flow.pc \in {"idle", "get", "del"}

\* C36: when the read of the store at the start of get_ensureLoggedIn() fails
\* (no connection, a rejected GET or DEL, a value that cannot be loaded) the
\* call throws: it has requested no login session, polled nothing, exchanged
\* nothing and written nothing, and it does not go on afterwards.
C36_readFailureIsFatal ==
  /\ [][Reading /\ flow'.pc = "threw" =>
          /\ flow'.err = "REDIS_ERROR"
          /\ store' = store /\ poll' = poll
          /\ flow'.sessions = 0 /\ flow'.attempts = 0 /\ flow'.exchanges = 0
          /\ flow'.writes = 0]_vars
  /\ [][flow.pc = "get" /\ flow' # flow /\ RedisGet(store, now) = Str(<<"n", "u", "l", "l">>)
          => flow'.pc = "threw"]_vars
  /\ [][flow.pc = "threw" => flow' = flow]_vars

\* the call has thrown on the entry `null`, which fromRedis() cannot load
C36_witness ==
  /\ flow.pc = "threw" /\ flow.err = "REDIS_ERROR" /\ client = "connected"
  /\ RedisGet(store, now) = Str(<<"n", "u", "l", "l">>)
  /\ flow.sessions = 0 /\ flow.writes = 0

-----------------------------------------------------------------------------
(* POST /api/qrcode when the session identifier cannot be obtained *)

\* C37: when fetchUUID() fails in POST /api/qrcode the request is answered
\* with an error, and pollingSessions, sessionStats, the timers that are set
\* and the callbacks in progress are as they were before the request.
C37_failedRequestFrame ==
  [][web'.refused /\ ~web.refused => web' = [web EXCEPT !.refused = TRUE]]_vars

\* a request was answered 500 while a session was polling, and the session is
\* still there with its timers
C37_witness ==
  /\ web.refused /\ web.made = 1
  /\ web.pollingSessions["a"].uuid = 1 /\ web.timeouts = {1} /\ web.intervals = {1}
  /\ web.sessionStats = [totalSessions |-> 1, activeSessions |-> 1]

-----------------------------------------------------------------------------
(* The order of main(), under SpecMain *)

\* an operation of the check-in client, or of the notifier, is entered
CheckinCalled(op) == checkin' # checkin /\ checkin'.op = op /\ checkin.pc \in {"idle", "done", "threw"}

MailCalled == mail' # mail /\ mail.pc \in {"idle", "done", "threw"}

NameMissing == ~Truthy(job.userName) \/ Len(Trim(job.userName.s)) = 0

\* C38: main() calls get_ensureLoggedIn(), getCheckInInfo(), submitCheckIn()
\* and sendCheckinResult() in this order, each only after the one before has
\* returned without an error; a missing or blank USER_NAME ends the run with
\* exit code 1 before the login flow is entered; the exit code is 0 only after
\* a submission that succeeded, and 1 after any failure.
C38_mainOrder ==
  /\ [][flow' # flow /\ flow.pc = "idle" => job.pc = "login" /\ ~NameMissing]_vars
  /\ [][CheckinCalled("getCheckInInfo") =>
          flow.pc = "returned" /\ job'.tokenInfo = flow.ret /\ job.requests = 0]_vars
  /\ [][CheckinCalled("submitCheckIn") =>
          checkin.op = "getCheckInInfo" /\ checkin.pc = "done" /\ checkin'.token = checkin.token]_vars
  /\ [][MailCalled =>
          /\ checkin.op = "submitCheckIn" /\ checkin.pc = "done"
          /\ mail'.op = "sendCheckinResult" /\ mail'.result = checkin.ret]_vars
  /\ [](job.pc = "exited" => job.res \in {"exit 0", "exit 1"})
  /\ [](job.res = "exit 0" =>
          /\ flow.pc = "returned" /\ checkin.op = "submitCheckIn" /\ checkin.pc = "done"
          /\ mail.op = "sendCheckinResult" /\ mail.pc = "done" /\ job.requests = 2)
  /\ [](job.pc = "exited" /\ (NameMissing \/ flow.pc = "threw" \/ checkin.pc = "threw")
          => job.res = "exit 1")
  /\ [](job.by = "main" /\ NameMissing => job.pc = "exited" /\ flow = NoFlow /\ checkin = NoCheckin)
  /\ [][job.pc = "exited" => UNCHANGED vars]_vars

\* the run has exited with 0 after a login through the QR flow whose first
\* attempt failed, both check-in calls and a notification that was delivered
C38_witness ==
  /\ job.res = "exit 0" /\ flow.path = "qr" /\ flow.attempts = 2
  /\ checkin.op = "submitCheckIn" /\ checkin.req.token = flow.ret.token
  /\ mail.delivered

-----------------------------------------------------------------------------
(* The Redis client of the process, under SpecClient *)

\* C39: at most one Redis client is created per process: first calls of
\* fromRedis() and save() that overlap are handed the same promise, and
\* clientPromise, once set, is never replaced, whether connect() resolves or
\* rejects; every caller sees the one outcome.
C39_oneClient ==
  /\ [](savers.made <= 1)
  /\ [](\A i \in 1..MaxSavers : savers.waits[i].op # "none" => savers.waits[i].p = savers.promise)
  /\ [][savers.promise # 0 => savers'.promise = savers.promise]_vars
  /\ [][client # "null" => client' = client]_vars
  /\ [](\A i \in 1..MaxSavers : savers.run[i].pc \in {"get", "set", "done"} => client = "connected")

\* a fromRedis() and a save() both wait for the connection of the one client,
\* which has not settled yet
C39_witness ==
  /\ client = "null" /\ savers.made = 1
  /\ savers.waits[1] = [op |-> "fromRedis", p |-> 1]
  /\ savers.waits[2] = [op |-> "save", p |-> 1]

====
